---------------------------- MODULE Spec2Model ----------------------------
(***************************************************************************)
(* Model of the contract bot (bot/handlers.py, bot/utils/*.py).            *)
(*                                                                         *)
(*   - build_payment_schedule  (bot/utils/schedule.py), one step per loop  *)
(*     iteration;                                                          *)
(*   - parse_passport_text and recognize_passport_image with its field     *)
(*     extractors (bot/utils/passport.py), computed on character           *)
(*     sequences;                                                          *)
(*   - the dialogue handlers of bot/handlers.py over the FSM state and     *)
(*     data of one chat.                                                   *)
(*                                                                         *)
(* Text is a sequence of one-character strings.  The module language has   *)
(* no Cyrillic string literals, so every Cyrillic letter the code tests    *)
(* for is written as one Latin letter, upper case for upper case:          *)
(*   a=а v=в g=г d=д e=е x=ж z=з i=и j=й k=к l=л m=м n=н o=о p=п r=р s=с   *)
(*   t=т u=у f=ф c=ц h=ч y=ы q=я b=б                                       *)
(* so "famil" is "фамил", "imq" is "имя", "oth" is "отч", "seriq" is       *)
(* "серия", "vydan" is "выдан", "data vydahi" is "дата выдачи".            *)
(***************************************************************************)
EXTENDS Integers, Sequences, FiniteSets, TLC

VARIABLES
    \* build_payment_schedule(start_date, total_amount)
    sch_pc,         \* "loop" while in the while loop, "done" after return,
                    \* "raised" when the date arithmetic raised ValueError
    start_date,     \* argument start_date
    total_amount,   \* argument total_amount
    payments,       \* local list payments
    remaining,      \* local remaining
    month,          \* local month
    \* recognize_passport_image(image_path)
    rec_pc,         \* "ocr", "normalize", "build", "decide", then "returned"
                    \* or "raised" (PassportRecognitionError)
    raw_lines,      \* what reader.readtext returned
    rec_lines,      \* local lines
    rec_result,     \* local result
    rec_error,      \* which raise statement raised, "" if none
    rec_return,     \* the returned pair (passport, result), NoneRec before
    \* parse_passport_text(raw_text)
    parse_pc,       \* "clean", "collect", "map", "build", then "returned"
                    \* or "raised"
    raw_text,       \* the argument
    data,           \* local data: the dict as its (key, value) items in order
    mapped,         \* local mapped: a function on the fields mapped so far
    parse_error,    \* the exception raised, "" if none
    parse_return,   \* the returned PassportData, NoneRec before
    \* bot/handlers.py: the dialogue of one user
    fsm_state,      \* the FSM state of the user, "none" when there is none
    fsm_data,       \* the FSM data: a function on the keys stored so far
    counter_file,   \* the value in the counter file, 0 while it is absent
    registry,       \* the contracts of the user in the registry file
    generated,      \* the ContractContext last handed to generate_documents,
                    \* NoneRec before
    handler,        \* the handler that took the last update, "" before
    reply,          \* the last answer sent to the user, "" before
    dlg_error,      \* the exception that left the last handler, "" if none
    photo_outcome,  \* what recognize_passport_image returned or raised in
                    \* the handler of the last update, NoneRec if not called
    manual_outcome, \* what parse_passport_text returned or raised in the
                    \* handler of the last update, NoneRec if not called
    \* _get_ocr_reader() called from the threads of the default executor
    easyocr_installed, \* whether "import easyocr" succeeds
    reader_cache,   \* the entry of the lru_cache for the key (), NoneRec
                    \* while it has none
    readers_made,   \* how many times easyocr.Reader(...) was instantiated
    thr_pc,         \* per thread: "idle", "lookup", "call", "store",
                    \* "readtext" or "raised"
    thr_reader,     \* per thread: the reader it holds, NoneRec if none
    thr_calls,      \* per thread: the recognize_passport_image calls taken
    \* bot/utils/counter.py and bot/utils/registry.py: the two JSON files
    counter_json,   \* the counter file: absent, not JSON, or a dict
    registry_json,  \* the registry file: absent, not JSON, or a dict
    returned,       \* the values load_and_increment returned, in call order
    appended,       \* per user id: the payloads update_user_contract was
                    \* called with, in call order
    last_got,       \* the user id and the result of the last call when it
                    \* was get_last_contract, NoneRec otherwise
    \* bot/handlers.py: the dialogues of several users on one event loop
    usr_state,      \* per user: the FSM state
    usr_pc,         \* per user: where the handler of the current update is,
                    \* "idle" between updates
    usr_counter,    \* per user: local counter of handle_first_payment, 0
                    \* outside it
    usr_number      \* per user: data["contract_number"], <<>> without one

sched_vars == <<sch_pc, start_date, total_amount, payments, remaining, month>>

rec_vars == <<rec_pc, raw_lines, rec_lines, rec_result, rec_error, rec_return>>

parse_vars == <<parse_pc, raw_text, data, mapped, parse_error, parse_return>>

dlg_vars ==
    <<fsm_state, fsm_data, counter_file, registry, generated, handler, reply, dlg_error,
      photo_outcome, manual_outcome>>

reader_vars ==
    <<easyocr_installed, reader_cache, readers_made, thr_pc, thr_reader, thr_calls>>

store_vars == <<counter_json, registry_json, returned, appended, last_got>>

users_vars == <<usr_state, usr_pc, usr_counter, usr_number>>

vars ==
    <<sched_vars, rec_vars, parse_vars, dlg_vars, reader_vars, store_vars, users_vars>>

-----------------------------------------------------------------------------
(* Generic helpers *)

Min(a, b) == IF a <= b THEN a ELSE b

RECURSIVE SumAmounts(_)
SumAmounts(ps) ==
    IF ps = <<>> THEN 0 ELSE ps[1].amount + SumAmounts(Tail(ps))

-----------------------------------------------------------------------------
(* Python str and re primitives on character sequences *)

\* a string literal as a sequence of one-character strings
Chars(s) == [i \in 1..Len(s) |-> SubSeq(s, i, i)]

UpperSeq == Chars("ABCDEFGHIJKLMNOPQRSTUVWXYZ")
LowerSeq == Chars("abcdefghijklmnopqrstuvwxyz")
DigitSeq == Chars("0123456789")

UpperLetters == {UpperSeq[i] : i \in 1..Len(UpperSeq)}
LowerLetters == {LowerSeq[i] : i \in 1..Len(LowerSeq)}
DigitChars == {DigitSeq[i] : i \in 1..Len(DigitSeq)}

LowerOf == [c \in UpperLetters |->
               LowerSeq[CHOOSE i \in 1..Len(UpperSeq) : UpperSeq[i] = c]]
UpperOf == [c \in LowerLetters |->
               UpperSeq[CHOOSE i \in 1..Len(LowerSeq) : LowerSeq[i] = c]]
DigitValue == [c \in DigitChars |->
               (CHOOSE i \in 1..Len(DigitSeq) : DigitSeq[i] = c) - 1]

\* None for str-valued results; no text equals it (its element is no character)
None == <<"None">>

\* None for record-valued results (PassportData, date)
NoneRec == [is_none |-> TRUE]

\* truth value of an Optional[str]: None and "" are false
Truthy(v) == v # None /\ v # <<>>

IsDigit(c) == c \in DigitChars           \* \d, str.isdigit
IsUpper(c) == c \in UpperLetters         \* [А-ЯЁ]
IsLower(c) == c \in LowerLetters         \* [а-яё]
IsSpace(c) == c \in {" ", "\n"}          \* \s
IsWordChar(c) == IsDigit(c) \/ IsUpper(c) \/ IsLower(c) \/ c = "_"   \* \w

LowerChar(c) == IF c \in UpperLetters THEN LowerOf[c] ELSE c
UpperChar(c) == IF c \in LowerLetters THEN UpperOf[c] ELSE c

\* str.lower, str.upper, str.capitalize
Lower(s) == [i \in 1..Len(s) |-> LowerChar(s[i])]
Upper(s) == [i \in 1..Len(s) |-> UpperChar(s[i])]
Capitalize(s) ==
    [i \in 1..Len(s) |-> IF i = 1 THEN UpperChar(s[i]) ELSE LowerChar(s[i])]

\* str.isupper: some cased character and no lower-case one
IsUpperStr(s) ==
    /\ \E i \in 1..Len(s) : IsUpper(s[i])
    /\ \A i \in 1..Len(s) : ~IsLower(s[i])

\* s[i:] starts with pat (i is 1-based)
StartsWithAt(s, i, pat) ==
    /\ i >= 1
    /\ i + Len(pat) - 1 <= Len(s)
    /\ \A k \in 1..Len(pat) : s[i + k - 1] = pat[k]

\* "pat in s"
Contains(s, pat) == \E i \in 1..(Len(s) - Len(pat) + 1) : StartsWithAt(s, i, pat)

\* first index >= from of a set of indices, 0 when there is none
FirstAtLeast(S, from) ==
    LET T == {i \in S : i >= from}
    IN IF T = {} THEN 0 ELSE CHOOSE i \in T : \A j \in T : i <= j

\* the first element of a sequence that is not absent, absent when there
\* is none (a loop that returns at the first iteration yielding a result)
FirstPresent(xs, absent) ==
    LET ok == {k \in 1..Len(xs) : xs[k] # absent}
    IN IF ok = {} THEN absent ELSE xs[FirstAtLeast(ok, 1)]

\* str.find(pat) + 1: index of the first occurrence, 0 when there is none
Find(s, pat) ==
    FirstAtLeast({i \in 1..(Len(s) - Len(pat) + 1) : StartsWithAt(s, i, pat)}, 1)

\* str.strip
Strip(s) ==
    LET keep == {i \in 1..Len(s) : ~IsSpace(s[i])}
    IN IF keep = {} THEN <<>>
       ELSE LET lo == CHOOSE i \in keep : \A j \in keep : i <= j
                hi == CHOOSE i \in keep : \A j \in keep : i >= j
            IN SubSeq(s, lo, hi)

\* the elements of a finite set of integers in increasing order
SortedSeq(S) ==
    [k \in 1..Cardinality(S) |->
        CHOOSE x \in S : Cardinality({y \in S : y < x}) = k - 1]

\* the maximal runs of characters satisfying In, from the left
RunsOf(s, In(_)) ==
    LET starts == SortedSeq({i \in 1..Len(s) :
                                In(s[i]) /\ (i = 1 \/ ~In(s[i - 1]))})
        ends == SortedSeq({i \in 1..Len(s) :
                              In(s[i]) /\ (i = Len(s) \/ ~In(s[i + 1]))})
    IN [k \in 1..Len(starts) |-> SubSeq(s, starts[k], ends[k])]

\* str.split(): the maximal runs of non-whitespace characters
SplitWords(s) == RunsOf(s, LAMBDA c : ~IsSpace(c))

\* str.splitlines(): pieces between "\n", no empty piece after a final "\n"
SplitLines(s) ==
    LET breaks == SortedSeq({i \in 1..Len(s) : s[i] = "\n"})
        n == Len(breaks)
        piece(k) == SubSeq(s, (IF k = 1 THEN 1 ELSE breaks[k - 1] + 1),
                              (IF k > n THEN Len(s) ELSE breaks[k] - 1))
        count == IF s = <<>> \/ s[Len(s)] = "\n" THEN n ELSE n + 1
    IN [k \in 1..count |-> piece(k)]

\* sep.join(parts)
RECURSIVE Join(_, _)
Join(parts, sep) ==
    IF parts = <<>> THEN <<>>
    ELSE IF Len(parts) = 1 THEN parts[1]
    ELSE parts[1] \o sep \o Join(Tail(parts), sep)

\* text.replace("\n", " ")
ReplaceNewlines(s) == [i \in 1..Len(s) |-> IF s[i] = "\n" THEN " " ELSE s[i]]

\* re.sub(r"\D", "", s)
DigitsOnly(s) == SelectSeq(s, IsDigit)

\* int() of a digit string
RECURSIVE IntOf(_)
IntOf(ds) ==
    IF ds = <<>> THEN 0
    ELSE IntOf(SubSeq(ds, 1, Len(ds) - 1)) * 10 + DigitValue[ds[Len(ds)]]

\* str(n) of a natural number
RECURSIVE DecimalDigits(_)
DecimalDigits(n) ==
    IF n < 10 THEN <<DigitSeq[n + 1]>>
    ELSE Append(DecimalDigits(n \div 10), DigitSeq[(n % 10) + 1])

\* f"{n:0{width}d}": zero padded to width digits, longer numbers unchanged
ZeroPad(n, width) ==
    [k \in 1..(width - Len(DecimalDigits(n))) |-> "0"] \o DecimalDigits(n)

\* list(dict.fromkeys(xs)): first occurrences, order kept
RECURSIVE Dedupe(_)
Dedupe(xs) ==
    IF xs = <<>> THEN <<>>
    ELSE LET init == Dedupe(SubSeq(xs, 1, Len(xs) - 1))
             last == xs[Len(xs)]
         IN IF \E i \in 1..Len(init) : init[i] = last THEN init
            ELSE Append(init, last)

\* x in xs
InSeq(x, xs) == \E i \in 1..Len(xs) : xs[i] = x


-----------------------------------------------------------------------------
(* bot/utils/passport.py: text helpers and full-name extraction *)

\* _normalize_text: re.sub(r"\s+", " ", text).strip()
NormalizeText(t) == Join(SplitWords(t), <<" ">>)

\* _contains_digits
ContainsDigits(t) == \E i \in 1..Len(t) : IsDigit(t[i])

\* any(p in s for p in pats)
ContainsAny(s, pats) == \E p \in pats : Contains(s, p)

\* the whole of w matches [А-ЯЁ][а-яё]+
IsCapitalizedWord(w) ==
    /\ Len(w) >= 2
    /\ IsUpper(w[1])
    /\ \A i \in 2..Len(w) : IsLower(w[i])

\* _is_name_word: fullmatch [А-ЯЁ][а-яё]+(?:-[А-ЯЁ][а-яё]+)?
IsNameWord(w) ==
    \/ IsCapitalizedWord(w)
    \/ \E k \in 2..(Len(w) - 1) :
          /\ w[k] = "-"
          /\ IsCapitalizedWord(SubSeq(w, 1, k - 1))
          /\ IsCapitalizedWord(SubSeq(w, k + 1, Len(w)))

\* ("россий", "федерац", "паспорт", "мвд")
NameTokenStopWords ==
    {Chars("rossij"), Chars("federac"), Chars("pasport"), Chars("mvd")}

\* _split_name_tokens
SplitNameTokens(value) ==
    SelectSeq(SplitWords(value),
              LAMBDA w : IsNameWord(w) /\ ~ContainsAny(Lower(w), NameTokenStopWords))

\* _normalize_name_word
NormalizeNameWord(word) ==
    LET cleaned == Strip(word)
    IN IF Len(cleaned) <= 2 THEN Upper(cleaned) ELSE Capitalize(cleaned)

\* " ".join(_normalize_name_word(w) for w in words)
JoinNormalized(words) ==
    Join([i \in 1..Len(words) |-> NormalizeNameWord(words[i])], <<" ">>)

\* the inner loop of _extract_after_keyword over lines[idx + 1 : idx + 3]
TailAfterKeyword(lines, idx, keywords) ==
    FirstPresent([j \in 1..2 |->
                    IF /\ idx + j <= Len(lines)
                       /\ ~ContainsAny(Lower(lines[idx + j]), keywords)
                       /\ ~ContainsDigits(lines[idx + j])
                    THEN Strip(lines[idx + j]) ELSE None], None)

\* _extract_after_keyword
ExtractAfterKeyword(lines, keywords) ==
    FirstPresent([idx \in 1..Len(lines) |->
                    IF ContainsAny(Lower(lines[idx]), keywords)
                    THEN TailAfterKeyword(lines, idx, keywords) ELSE None], None)

\* "if value: tokens = _split_name_tokens(value); if tokens: ...": the first
\* n tokens, normalized
NormalizedTokens(value, n) ==
    IF ~Truthy(value) THEN <<>>
    ELSE [i \in 1..Min(n, Len(SplitNameTokens(value))) |->
             NormalizeNameWord(SplitNameTokens(value)[i])]

\* the three keyword blocks of _extract_full_name, given the three values
KeywordNamePartsOf(last, first, middle) ==
    NormalizedTokens(last, 1)
    \o NormalizedTokens(first, IF Truthy(middle) THEN 1 ELSE 2)
    \o NormalizedTokens(middle, 1)

\* name_parts of _extract_full_name (keyword-anchored parts)
KeywordNameParts(lines) ==
    KeywordNamePartsOf(ExtractAfterKeyword(lines, {Chars("famil")}),
                       ExtractAfterKeyword(lines, {Chars("imq")}),
                       ExtractAfterKeyword(lines, {Chars("oth")}))

\* last index of [А-ЯЁ][а-яё]+ matched greedily at i, 0 when it does not match
CapWordEnd(s, i) ==
    IF i >= 1 /\ i + 1 <= Len(s) /\ IsUpper(s[i]) /\ IsLower(s[i + 1])
    THEN LET stops == {k \in (i + 1)..Len(s) : ~IsLower(s[k])}
         IN IF stops = {} THEN Len(s) ELSE FirstAtLeast(stops, 1) - 1
    ELSE 0

\* index after the single space that must follow a word ending at e,
\* 0 when e = 0 or no space follows
AfterSpace(s, e) ==
    IF e = 0 \/ e + 1 > Len(s) \/ s[e + 1] # " " THEN 0 ELSE e + 2

\* last index of a match of name_pattern at i, 0 when it does not match:
\* [А-ЯЁ][а-яё]+ [А-ЯЁ][а-яё]+ [А-ЯЁ][а-яё]+
NamePatternEnd(s, i) ==
    CapWordEnd(s, AfterSpace(s, CapWordEnd(s, AfterSpace(s, CapWordEnd(s, i)))))

\* name_pattern.findall(s) from index i: the non-overlapping matches
RECURSIVE NamePatternFindAll(_, _)
NamePatternFindAll(s, i) ==
    LET m == FirstAtLeast({k \in 1..Len(s) : NamePatternEnd(s, k) # 0}, i)
    IN IF m = 0 THEN <<>>
       ELSE <<SubSeq(s, m, NamePatternEnd(s, m))>>
            \o NamePatternFindAll(s, NamePatternEnd(s, m) + 1)

\* ("российск", "федерац", "паспорт")
NamePatternStopWords == {Chars("rossijsk"), Chars("federac"), Chars("pasport")}

\* the loop over the matches of name_pattern: the words of the first
\* candidate without a stop word that has three name words, <<>> if none
FirstNameCandidate(matches) ==
    FirstPresent([k \in 1..Len(matches) |->
                    IF /\ ~ContainsAny(Lower(matches[k]), NamePatternStopWords)
                       /\ Len(SelectSeq(SplitWords(matches[k]), IsNameWord)) = 3
                    THEN SelectSeq(SplitWords(matches[k]), IsNameWord)
                    ELSE <<>>], <<>>)

\* normalized_text and the name_pattern loop of _extract_full_name
PatternNameWords(lines) ==
    FirstNameCandidate(
        NamePatternFindAll(
            Join(SelectSeq([i \in 1..Len(lines) |-> Strip(lines[i])],
                           LAMBDA l : l # <<>>), <<" ">>), 1))

\* the tokens a line contributes in _collect_name_sequence: <<>> for a
\* line that resets current (empty, with digits, or without name tokens)
LineNameTokens(line) ==
    IF Strip(line) = <<>> \/ ContainsDigits(Strip(line)) THEN <<>>
    ELSE SplitNameTokens(Strip(line))

\* _collect_name_sequence: the loop from line i with the locals best, current
RECURSIVE CollectNameSequenceFrom(_, _, _, _)
CollectNameSequenceStep(lines, i, best, current, tokens) ==
    IF tokens = <<>> THEN CollectNameSequenceFrom(lines, i + 1, best, <<>>)
    ELSE IF Len(tokens) >= 3 THEN SubSeq(tokens, 1, 3)
    ELSE LET cur1 == IF Len(tokens) = 2 THEN tokens
                     ELSE Append(current, tokens[1])
             cur2 == IF Len(cur1) > 3
                     THEN SubSeq(cur1, Len(cur1) - 2, Len(cur1))
                     ELSE cur1
             best2 == IF Len(cur2) > Len(best) THEN cur2 ELSE best
         IN IF Len(best2) = 3 THEN best2
            ELSE CollectNameSequenceFrom(lines, i + 1, best2, cur2)

CollectNameSequenceFrom(lines, i, best, current) ==
    IF i > Len(lines) THEN best
    ELSE CollectNameSequenceStep(lines, i, best, current, LineNameTokens(lines[i]))

CollectNameSequence(lines) == CollectNameSequenceFrom(lines, 1, <<>>, <<>>)

\* the marker "отчество" in the second component of _extract_full_name
MissingPatronymic == <<"othestvo">>

\* the return statements of _extract_full_name, given name_parts, the
\* words of the pattern candidate and the result of _collect_name_sequence
FullNameFrom(name_parts, pattern, sequential) ==
    IF Len(name_parts) >= 3
    THEN [name |-> Join(SubSeq(name_parts, 1, 3), <<" ">>), missing |-> <<>>]
    ELSE IF Len(name_parts) = 2
    THEN [name |-> Join(name_parts, <<" ">>), missing |-> MissingPatronymic]
    ELSE IF pattern # <<>>
    THEN [name |-> JoinNormalized(pattern), missing |-> <<>>]
    ELSE IF Len(sequential) = 3
    THEN [name |-> JoinNormalized(sequential), missing |-> <<>>]
    ELSE IF Len(sequential) = 2
    THEN [name |-> JoinNormalized(sequential), missing |-> MissingPatronymic]
    ELSE [name |-> None, missing |-> <<>>]

\* _extract_full_name: (full_name or None, missing_name_parts)
ExtractFullName(lines, text) ==
    FullNameFrom(KeywordNameParts(lines), PatternNameWords(lines),
                 CollectNameSequence(lines))


-----------------------------------------------------------------------------
(* datetime.date and dateutil.relativedelta(months=n) *)

\* datetime.MAXYEAR: date.replace raises ValueError above it
MAXYEAR == 9999

IsLeap(y) == (y % 4 = 0 /\ y % 100 # 0) \/ y % 400 = 0

DaysInMonth(y, m) ==
    IF m = 2 THEN (IF IsLeap(y) THEN 29 ELSE 28)
    ELSE IF m \in {4, 6, 9, 11} THEN 30 ELSE 31

MkDate(y, m, d) == [y |-> y, m |-> m, d |-> d]

IsValidDate(dt) ==
    /\ dt.y >= 1 /\ dt.y <= MAXYEAR
    /\ dt.m >= 1 /\ dt.m <= 12
    /\ dt.d >= 1 /\ dt.d <= DaysInMonth(dt.y, dt.m)

\* months since year 0 of a date's (year, month)
MonthOrdinal(dt) == dt.y * 12 + (dt.m - 1)

DateLess(a, b) ==
    \/ a.y < b.y
    \/ a.y = b.y /\ a.m < b.m
    \/ a.y = b.y /\ a.m = b.m /\ a.d < b.d

\* start + relativedelta(months=n): year and month carry, the day is clamped
\* to the length of the target month.  The year may exceed MAXYEAR here; the
\* caller raises in that case, as date.replace does.
AddMonths(dt, n) ==
    LET ord == MonthOrdinal(dt) + n
        y2 == ord \div 12
        m2 == (ord % 12) + 1
    IN MkDate(y2, m2, Min(dt.d, DaysInMonth(y2, m2)))

-----------------------------------------------------------------------------
(* bot/utils/passport.py: series/number, issued date, issued-by, division code *)

\* s[i .. i+n-1] are n digits
DigitsAt(s, i, n) ==
    /\ i >= 1
    /\ i + n - 1 <= Len(s)
    /\ \A k \in 0..(n - 1) : IsDigit(s[i + k])

\* first index >= j holding a digit, Len(s) + 1 when there is none
\* (where a greedy \D* or [^0-9]* started at j ends)
SkipNonDigits(s, j) ==
    LET ds == {k \in 1..Len(s) : k >= j /\ IsDigit(s[k])}
    IN IF ds = {} THEN Len(s) + 1 ELSE FirstAtLeast(ds, j)

\* index after (\d{2}\s?\d{2}) matched at i, 0 when it does not match
SeriesGroupEnd(s, i) ==
    IF DigitsAt(s, i, 2) /\ i + 2 <= Len(s) /\ IsSpace(s[i + 2]) /\ DigitsAt(s, i + 3, 2)
    THEN i + 5
    ELSE IF DigitsAt(s, i, 4) THEN i + 4
    ELSE 0

\* (\d{2}\s?\d{2})\D*(\d{6}) matches at i
SeriesNumberAt(s, i) ==
    /\ SeriesGroupEnd(s, i) # 0
    /\ DigitsAt(s, SkipNonDigits(s, SeriesGroupEnd(s, i)), 6)

\* the groups of the match of (\d{2}\s?\d{2})\D*(\d{6}) at i, digits only;
\* (None, None) when i = 0 (no match) or a group has the wrong length
SeriesNumberGroups(s, i) ==
    IF i = 0 THEN [series |-> None, number |-> None]
    ELSE LET series == DigitsOnly(SubSeq(s, i, SeriesGroupEnd(s, i) - 1))
             k == SkipNonDigits(s, SeriesGroupEnd(s, i))
             number == DigitsOnly(SubSeq(s, k, k + 5))
         IN IF Len(series) = 4 /\ Len(number) = 6
            THEN [series |-> series, number |-> number]
            ELSE [series |-> None, number |-> None]

\* pattern.search on the text with newlines replaced
SeriesNumberSearch(s) ==
    SeriesNumberGroups(s, FirstAtLeast({k \in 1..Len(s) : SeriesNumberAt(s, k)}, 1))

\* _extract_series_number
ExtractSeriesNumber(text) == SeriesNumberSearch(ReplaceNewlines(text))

\* [.\s]
IsDateSeparator(c) == c = "." \/ IsSpace(c)

\* \d{2}[.\s]\d{2}[.\s]\d{4} matches at i
DateShapeAt(s, i) ==
    /\ DigitsAt(s, i, 2)
    /\ i + 9 <= Len(s)
    /\ IsDateSeparator(s[i + 2])
    /\ DigitsAt(s, i + 3, 2)
    /\ IsDateSeparator(s[i + 5])
    /\ DigitsAt(s, i + 6, 4)

\* the ten characters at k, None when k = 0
DateTokenAt(s, k) == IF k = 0 THEN None ELSE SubSeq(s, k, k + 9)

\* date_pattern.search(s): the first match, None when there is none
DateSearch(s) ==
    DateTokenAt(s, FirstAtLeast({k \in 1..Len(s) : DateShapeAt(s, k)}, 1))

\* date_pattern.findall(s) from index i: the non-overlapping matches
RECURSIVE DateFindAll(_, _)
DateFindAll(s, i) ==
    LET m == FirstAtLeast({k \in 1..Len(s) : DateShapeAt(s, k)}, i)
    IN IF m = 0 THEN <<>>
       ELSE <<SubSeq(s, m, m + 9)>> \o DateFindAll(s, m + 10)

\* re.findall(r"\d+", value)
DigitRuns(s) == RunsOf(s, IsDigit)

\* dateutil parser.parse("DD.MM.YYYY", dayfirst=True).date() on the three
\* numbers a.b.c, c written with four digits (so c is known to be the year
\* unless a > 31): the day/month order of dateutil's resolve_ymd, then the
\* range check of datetime.  NoneRec stands for ValueError / ParserError.
DateutilParseUnchecked(a, b, c) ==
    IF a > 31
    THEN (IF c <= 12 THEN MkDate(a, c, b) ELSE MkDate(a, b, c))
    ELSE IF a > 12 \/ b <= 12 THEN MkDate(c, b, a)
    ELSE MkDate(c, a, b)

DateutilParseDMY(a, b, c) ==
    LET ymd == IF a > 31
               THEN (IF c <= 12 THEN MkDate(a, c, b) ELSE MkDate(a, b, c))
               ELSE IF a > 12 \/ b <= 12 THEN MkDate(c, b, a)
               ELSE MkDate(c, a, b)
    IN IF IsValidDate(ymd) THEN ymd ELSE NoneRec

\* parser.parse(".".join(digits), dayfirst=True).date() for three digit runs
ParseDigitRuns(digits) ==
    IF Len(digits) # 3 THEN NoneRec
    ELSE DateutilParseDMY(IntOf(digits[1]), IntOf(digits[2]), IntOf(digits[3]))

\* _parse_date_string
ParseDateString(value) == ParseDigitRuns(DigitRuns(value))

\* keywords of _extract_issued_date, in order:
\* ("дата выдачи", "выдан", "выдано", "выдана")
IssuedDateKeywords ==
    <<Chars("data vydahi"), Chars("vydan"), Chars("vydano"), Chars("vydana")>>

\* {0,40} of the two keyword patterns
KEYWORD_GAP == 40

\* keyword[^0-9]{0,40}(date) matches at i (IGNORECASE): index of the date, else 0
KeywordThenDateAt(s, i, keyword) ==
    IF ~StartsWithAt(Lower(s), i, keyword) THEN 0
    ELSE LET j == i + Len(keyword)
             k == SkipNonDigits(s, j)
         IN IF k - j <= KEYWORD_GAP /\ DateShapeAt(s, k) THEN k ELSE 0

\* group(1) of the first match of keyword[^0-9]{0,40}(date), None if no match
KeywordThenDateSearch(s, keyword) ==
    DateTokenAt(s, KeywordThenDateAt(s,
        FirstAtLeast({k \in 1..Len(s) : KeywordThenDateAt(s, k, keyword) # 0}, 1),
        keyword))

\* (date)[^0-9]{0,40}keyword matches at i (IGNORECASE)
DateThenKeywordAt(s, i, keyword) ==
    /\ DateShapeAt(s, i)
    /\ \E n \in 0..KEYWORD_GAP :
          /\ \A k \in (i + 10)..(i + 9 + n) : k <= Len(s) /\ ~IsDigit(s[k])
          /\ StartsWithAt(Lower(s), i + 10 + n, keyword)

\* group(1) of the first match of (date)[^0-9]{0,40}keyword, None if no match
DateThenKeywordSearch(s, keyword) ==
    DateTokenAt(s, FirstAtLeast({k \in 1..Len(s) : DateThenKeywordAt(s, k, keyword)}, 1))

\* a loop "for x in candidates: parsed = _parse_date_string(x); if parsed:
\* return parsed": the first candidate that is a match and parses
FirstParsed(candidates) ==
    FirstPresent([k \in 1..Len(candidates) |->
                     IF candidates[k] = None THEN NoneRec
                     ELSE ParseDateString(candidates[k])], NoneRec)

\* strategy 1: keyword before date, one search per keyword
IssuedDateByKeywordBefore(text) ==
    FirstParsed([k \in 1..Len(IssuedDateKeywords) |->
                    KeywordThenDateSearch(text, IssuedDateKeywords[k])])

\* strategy 2: date before keyword, one search per keyword
IssuedDateByKeywordAfter(text) ==
    FirstParsed([k \in 1..Len(IssuedDateKeywords) |->
                    DateThenKeywordSearch(text, IssuedDateKeywords[k])])

\* combined of strategy 3: line idx, its next and its previous line
CombinedLines(lines, idx) ==
    Join(<<lines[idx]>>
         \o (IF idx + 1 <= Len(lines) THEN <<lines[idx + 1]>> ELSE <<>>)
         \o (IF idx > 1 THEN <<lines[idx - 1]>> ELSE <<>>), <<" ">>)

\* the loop of strategy 3 over the lines
NeighbourhoodDate(lines) ==
    FirstParsed([idx \in 1..Len(lines) |->
                    IF \E k \in 1..Len(IssuedDateKeywords) :
                          Contains(Lower(lines[idx]), IssuedDateKeywords[k])
                    THEN DateSearch(CombinedLines(lines, idx))
                    ELSE None])

\* strategy 3: a line with a keyword, joined with its next and previous line
IssuedDateByNeighbourhood(text) == NeighbourhoodDate(SplitLines(text))

\* "if len(unique_matches) == 1: return matches[0]"
TheFirstDate(matches) ==
    IF matches # <<>> THEN matches[1] ELSE NoneRec

TheOnlyDate(matches) ==
    IF Cardinality({matches[k] : k \in 1..Len(matches)}) = 1
    THEN matches[1] ELSE NoneRec

\* the parsed date tokens: "for raw in ...: parsed = ...; if parsed: append"
ParsedDates(raw) ==
    SelectSeq([k \in 1..Len(raw) |-> ParseDateString(raw[k])],
              LAMBDA d : d # NoneRec)

\* strategy 4: all date tokens of the text; accepted when they denote one date
IssuedDateByUniqueDate(text) == TheOnlyDate(ParsedDates(DateFindAll(text, 1)))

\* _extract_issued_date: the four strategies in order
ExtractIssuedDate(text) ==
    FirstPresent(<<IssuedDateByKeywordBefore(text),
                   IssuedDateByKeywordAfter(text),
                   IssuedDateByNeighbourhood(text),
                   IssuedDateByUniqueDate(text)>>, NoneRec)

\* -, – and — of the division-code patterns ("~" stands for the two long dashes)
IsDash(c) == c \in {"-", "~"}

\* first index >= j that holds no whitespace, Len(s) + 1 when there is none
SkipSpaces(s, j) ==
    LET ns == {k \in 1..Len(s) : k >= j /\ ~IsSpace(s[k])}
    IN IF ns = {} THEN Len(s) + 1 ELSE FirstAtLeast(ns, j)

\* last index of \d{3}\s*[-–—]\s*\d{3} matched at i, 0 when it does not match
DivisionShapeEnd(s, i) ==
    IF ~DigitsAt(s, i, 3) THEN 0
    ELSE LET d == SkipSpaces(s, i + 3)
         IN IF d > Len(s) \/ ~IsDash(s[d]) THEN 0
            ELSE LET k == SkipSpaces(s, d + 1)
                 IN IF DigitsAt(s, k, 3) THEN k + 2 ELSE 0

\* \b at the gap before index i (between s[i-1] and s[i])
WordBoundaryBefore(s, i) ==
    LET left == i - 1 >= 1 /\ i - 1 <= Len(s) /\ IsWordChar(s[i - 1])
        right == i >= 1 /\ i <= Len(s) /\ IsWordChar(s[i])
    IN left # right

\* the normalized code of the match at i, None when i = 0 or the digits
\* are not six
DivisionCodeAt(s, i) ==
    IF i = 0 THEN None
    ELSE IF Len(DigitsOnly(SubSeq(s, i, DivisionShapeEnd(s, i)))) # 6 THEN None
    ELSE SubSeq(DigitsOnly(SubSeq(s, i, DivisionShapeEnd(s, i))), 1, 3)
         \o <<"-">>
         \o SubSeq(DigitsOnly(SubSeq(s, i, DivisionShapeEnd(s, i))), 4, 6)

\* pattern.search on the text with newlines replaced
DivisionCodeSearch(s) ==
    DivisionCodeAt(s, FirstAtLeast({i \in 1..Len(s) :
                                       /\ DivisionShapeEnd(s, i) # 0
                                       /\ WordBoundaryBefore(s, i)
                                       /\ WordBoundaryBefore(s, DivisionShapeEnd(s, i) + 1)},
                                   1))

\* _extract_division_code
ExtractDivisionCode(text) == DivisionCodeSearch(ReplaceNewlines(text))

\* keyword_triggers of _looks_like_new_field
NewFieldKeywords ==
    {Chars("seriq"), Chars("nomer"), Chars("data"), Chars("kod podrazdeleniq"),
     Chars("famil"), Chars("imq"), Chars("oth"), Chars("pol"),
     Chars("mesto roxdeniq"), Chars("vydan"), Chars("fio")}

\* _looks_like_new_field on the stripped line
LooksLikeNewFieldStripped(stripped, lowered) ==
    \/ ContainsAny(lowered, NewFieldKeywords)
    \/ /\ StartsWithAt(lowered, 1, Chars("pasport"))
       /\ \/ WordBoundaryBefore(lowered, 8)
          \/ (Len(lowered) >= 8 /\ (IsSpace(lowered[8]) \/ lowered[8] \in {":", ",", "-"}))
    \/ DateSearch(stripped) # None
    \/ Len(DigitsOnly(stripped)) >= 10
    \/ (DivisionShapeEnd(stripped, 1) # 0 /\ DivisionShapeEnd(stripped, 1) = Len(stripped))

\* _looks_like_new_field
LooksLikeNewField(line) == LooksLikeNewFieldStripped(Strip(line), Lower(Strip(line)))

\* _normalize_title_phrase
NormalizeTitlePhrase(text) ==
    LET words == SplitWords(text)
        fix(w) == IF IsUpperStr(w) /\ Len(w) <= 3 THEN Upper(w)
                  ELSE IF Len(w) <= 2 THEN Upper(w)
                  ELSE Capitalize(w)
    IN Join([i \in 1..Len(words) |-> fix(words[i])], <<" ">>)

\* last index of (?i)кем\s+выдан[\s:]* matched at i, 0 when it does not match
KemVydanEnd(s, i) ==
    IF ~StartsWithAt(Lower(s), i, Chars("kem")) THEN 0
    ELSE LET k == SkipSpaces(s, i + 3)
         IN IF k = i + 3 \/ ~StartsWithAt(Lower(s), k, Chars("vydan")) THEN 0
            ELSE LET rest == {m \in 1..Len(s) :
                                 m >= k + 5 /\ ~IsSpace(s[m]) /\ s[m] # ":"}
                 IN IF rest = {} THEN Len(s) ELSE FirstAtLeast(rest, 1) - 1

\* re.sub(r"(?i)кем\s+выдан[\s:]*", "", s) from index i
RECURSIVE RemoveKemVydan(_, _)
RemoveKemVydan(s, i) ==
    LET m == FirstAtLeast({k \in 1..Len(s) : KemVydanEnd(s, k) # 0}, i)
    IN IF m = 0 THEN SubSeq(s, i, Len(s))
       ELSE SubSeq(s, i, m - 1) \o RemoveKemVydan(s, KemVydanEnd(s, m) + 1)

\* ("выдан", "овд", "уфмс", "мвд", "отдел")
IssuedByKeywords ==
    {Chars("vydan"), Chars("ovd"), Chars("ufms"), Chars("mvd"), Chars("otdel")}

\* index of the last line collected from idx: up to three following lines,
\* cut before the first that looks like a new field
LastCollected(lines, idx, stop) ==
    IF stop = {} THEN Min(idx + 3, Len(lines)) ELSE FirstAtLeast(stop, 1) - 1

\* the candidate built at line idx of _extract_issued_by: the line and up to
\* three following lines, cut at the first that looks like a new field,
\* with the "кем выдан" phrase removed
IssuedByCandidate(lines, idx) ==
    Strip(RemoveKemVydan(
        Join(SubSeq(lines, idx,
                    LastCollected(lines, idx,
                        {j \in (idx + 1)..Min(idx + 3, Len(lines)) :
                            LooksLikeNewField(lines[j])})),
             <<" ">>), 1))

\* "if candidate: return _normalize_title_phrase(candidate)"
TitleOrNone(candidate) ==
    IF candidate = <<>> THEN None ELSE NormalizeTitlePhrase(candidate)

\* _extract_issued_by
ExtractIssuedBy(lines) ==
    TitleOrNone(
        FirstPresent([idx \in 1..Len(lines) |->
                         IF ContainsAny(Lower(lines[idx]), IssuedByKeywords)
                         THEN IssuedByCandidate(lines, idx) ELSE <<>>], <<>>))


-----------------------------------------------------------------------------
(* bot/utils/passport.py: _build_passport_from_lines, recognize_passport_image *)

\* field labels: "ФИО", "серия", "номер", "кем выдан", "дата выдачи"
MandatoryLabels == <<"FIO", "seriq", "nomer", "kem vydan", "data vydahi">>

\* "код подразделения"
DivisionLabel == "kod podrazdeleniq"

\* the keys recognize_passport_image requires in values
MandatoryKeysWithDivision ==
    <<"full_name", "series", "number", "issued_by", "issued_date", "division_code">>

MandatoryKeys == <<"full_name", "series", "number", "issued_by", "issued_date">>

\* the initial result dict; values is a function whose domain is the keys set
EmptyResult ==
    [values |-> [k \in {} |-> None],
     recognized_fields |-> <<>>,
     missing_fields |-> <<>>,
     warnings |-> <<>>]

\* "if value: values[key] = value; recognized_fields.append(label)
\*  else: missing_fields.append(label)"
AddFieldNoMissing(result, key, label, value, found) ==
    IF found
    THEN [result EXCEPT !.values = (key :> value) @@ @,
                        !.recognized_fields = Append(@, label)]
    ELSE result

AddField(result, key, label, value, found) ==
    IF found
    THEN [result EXCEPT !.values = (key :> value) @@ @,
                        !.recognized_fields = Append(@, label)]
    ELSE [result EXCEPT !.missing_fields = Append(@, label)]

\* the division-code branch: no else
AddDivisionCode(result, value) ==
    IF Truthy(value)
    THEN [result EXCEPT !.values = ("division_code" :> value) @@ @,
                        !.recognized_fields = Append(@, DivisionLabel)]
    ELSE result

\* the warning appended for a name with missing parts
NameWarning(missing_name_parts) ==
    <<"FIO raspoznano ne polnostqu: otsutstvuet", missing_name_parts>>

\* the full-name branch, with its warning
AddFullNameNoWarning(result, name) ==
    AddField(result, "full_name", "FIO", name.name, Truthy(name.name))

AddFullName(result, name) ==
    IF Truthy(name.name) /\ name.missing # <<>>
    THEN [AddField(result, "full_name", "FIO", name.name, TRUE)
             EXCEPT !.warnings = Append(@, NameWarning(name.missing))]
    ELSE AddField(result, "full_name", "FIO", name.name, Truthy(name.name))

\* the filter of missing_fields by required_fields
FilterRequired(missing) ==
    SelectSeq(missing, LAMBDA f : InSeq(f, MandatoryLabels))

\* the series and the number branches
AddSeriesNumber(result, sn) ==
    AddField(AddField(result, "series", "seriq", sn.series, Truthy(sn.series)),
             "number", "nomer", sn.number, Truthy(sn.number))

\* the issued-by branch
AddIssuedBy(result, issued_by) ==
    AddField(result, "issued_by", "kem vydan", issued_by, Truthy(issued_by))

\* the issued-date branch
AddIssuedDate(result, issued_date) ==
    AddField(result, "issued_date", "data vydahi", issued_date, issued_date # NoneRec)

\* the final dict: missing_fields filtered and both lists deduplicated
Finalize(result) ==
    [result EXCEPT !.missing_fields = Dedupe(FilterRequired(@)),
                   !.recognized_fields = Dedupe(@)]

\* _build_passport_from_lines, given text = "\n".join(lines)
BuildFromText(lines, text) ==
    Finalize(
        AddDivisionCode(
            AddIssuedDate(
                AddIssuedBy(
                    AddSeriesNumber(
                        AddFullName(EmptyResult, ExtractFullName(lines, text)),
                        ExtractSeriesNumber(text)),
                    ExtractIssuedBy(lines)),
                ExtractIssuedDate(text)),
            ExtractDivisionCode(text)))

\* _build_passport_from_lines
BuildPassportFromLines(lines) == BuildFromText(lines, Join(lines, <<"\n">>))

\* lines = [_normalize_text(line) for line in raw_lines if _normalize_text(line)]
NormalizeLines(raw) ==
    SelectSeq([i \in 1..Len(raw) |-> NormalizeText(raw[i])],
              LAMBDA l : l # <<>>)

\* all(key in values for key in (...))
AllMandatoryPresentWithDivision(values) ==
    /\ \A i \in 1..Len(MandatoryKeys) : MandatoryKeys[i] \in DOMAIN values
    /\ "division_code" \in DOMAIN values

AllMandatoryPresent(values) ==
    \A i \in 1..Len(MandatoryKeys) : MandatoryKeys[i] \in DOMAIN values

\* PassportData(full_name=..., ..., issued_date=...), photo_path = None
MkPassport(values) ==
    [full_name |-> values["full_name"],
     series |-> values["series"],
     number |-> values["number"],
     issued_by |-> values["issued_by"],
     issued_date |-> values["issued_date"],
     photo_path |-> None]

\* passport of recognize_passport_image
PassportOf(result) ==
    IF AllMandatoryPresent(result.values) THEN MkPassport(result.values) ELSE NoneRec

\* "if not result.get('recognized_fields')"
NoFieldRecognizedOrIncomplete(result) ==
    result.recognized_fields = <<>> \/ result.missing_fields # <<>>

NoFieldRecognized(result) == result.recognized_fields = <<>>


-----------------------------------------------------------------------------
(* bot/utils/passport.py: parse_passport_text *)

\* the keys of FIELD_ALIASES, in dict order
FieldNames == <<"full_name", "series", "number", "issued_by", "issued_date">>

\* FIELD_ALIASES: "фио", "ф.и.о", "фамилия"; "серия"; "номер";
\* "кем выдан", "кем выдано", "орган"; "дата выдачи", "выдан", "выдана"
FIELD_ALIASES ==
    [full_name |-> <<Chars("fio"), Chars("f.i.o"), Chars("familiq")>>,
     series |-> <<Chars("seriq")>>,
     number |-> <<Chars("nomer")>>,
     issued_by |-> <<Chars("kem vydan"), Chars("kem vydano"), Chars("organ")>>,
     issued_date |-> <<Chars("data vydahi"), Chars("vydan"), Chars("vydana")>>]

\* lines = [line.strip() for line in cleaned.splitlines() if line.strip()]
TextLines(cleaned) ==
    SelectSeq([i \in 1..Len(SplitLines(cleaned)) |-> Strip(SplitLines(cleaned)[i])],
              LAMBDA l : l # <<>>)

\* where a line is split: at its first ":", else at its first "-", else 0
SeparatorIndexDashFirst(line) ==
    IF Find(line, <<"-">>) # 0 THEN Find(line, <<"-">>) ELSE Find(line, <<":">>)

SeparatorIndex(line) ==
    IF Find(line, <<":">>) # 0 THEN Find(line, <<":">>) ELSE Find(line, <<"-">>)

\* data[key.strip().lower()] = value.strip() on the items of the dict: a
\* new key is appended, an existing key keeps its place
DictSet(d, key, value) ==
    IF \E k \in 1..Len(d) : d[k].key = key
    THEN [k \in 1..Len(d) |-> IF d[k].key = key THEN [key |-> key, value |-> value]
                              ELSE d[k]]
    ELSE Append(d, [key |-> key, value |-> value])

\* the body of the loop over lines, for a line split at i
CollectLine(d, line, i) ==
    IF i = 0 THEN d
    ELSE DictSet(d, Lower(Strip(SubSeq(line, 1, i - 1))),
                 Strip(SubSeq(line, i + 1, Len(line))))

\* data after the first n lines
RECURSIVE CollectData(_, _)
CollectData(lines, n) ==
    IF n = 0 THEN <<>>
    ELSE CollectLine(CollectData(lines, n - 1), lines[n], SeparatorIndex(lines[n]))


\* "if alias in key"
AliasMatches(alias, key) == Contains(key, alias)

\* the item of data a field is mapped to: for the first alias that some key
\* contains, the first such key; 0 when no alias matches
MappedIndex(d, aliases) ==
    FirstPresent([a \in 1..Len(aliases) |->
                     FirstAtLeast({k \in 1..Len(d) : AliasMatches(aliases[a], d[k].key)}, 1)],
                 0)

\* mapped after the loop over FIELD_ALIASES
MapFields(d) ==
    [f \in {g \in DOMAIN FIELD_ALIASES : MappedIndex(d, FIELD_ALIASES[g]) # 0} |->
        d[MappedIndex(d, FIELD_ALIASES[f])].value]

\* missing = [field for field in FIELD_ALIASES if field not in mapped]
MissingFields(mp) == SelectSeq(FieldNames, LAMBDA f : f \notin DOMAIN mp)

\* the whole of value is DD.MM.Y..Y with four or more year digits
IsDottedDate(value) ==
    /\ Len(value) >= 10
    /\ DigitsAt(value, 1, 2) /\ value[3] = "."
    /\ DigitsAt(value, 4, 2) /\ value[6] = "."
    /\ \A k \in 7..Len(value) : IsDigit(value[k])

\* the decimal digits of the largest C int, 2147483647
CIntMaxDigits == Chars("2147483647")

\* a digit string denotes a number above the largest C int (compared as
\* strings: the number itself may not be representable)
ExceedsCInt(ds) ==
    LET nz == {k \in 1..Len(ds) : ds[k] # "0"}
        sig == IF nz = {} THEN <<>> ELSE SubSeq(ds, FirstAtLeast(nz, 1), Len(ds))
    IN \/ Len(sig) > Len(CIntMaxDigits)
       \/ /\ Len(sig) = Len(CIntMaxDigits)
          /\ \E k \in 1..Len(sig) :
                /\ DigitValue[sig[k]] > DigitValue[CIntMaxDigits[k]]
                /\ \A j \in 1..(k - 1) : sig[j] = CIntMaxDigits[j]

\* OverflowError of parser.parse: the year does not fit the C int that
\* datetime takes
OverflowRec == [is_overflow |-> TRUE]

\* parser.parse(value, dayfirst=True).date() for a value that is a dotted
\* date or holds no digit (words, the empty string).  The latter raise
\* ParserError, a ValueError; a dotted date raises ValueError when it is out
\* of range and OverflowError when its year exceeds the largest C int.
\* NoneRec stands for the ValueError, OverflowRec for the OverflowError.
DateutilParse(value) ==
    IF ~IsDottedDate(value) THEN NoneRec
    ELSE IF ExceedsCInt(SubSeq(value, 7, Len(value))) THEN OverflowRec
    ELSE ParseDateString(value)

\* PassportData(...) of parse_passport_text
ParsedPassport(mp, issued_date) ==
    [full_name |-> mp["full_name"],
     series |-> DigitsOnly(mp["series"]),
     number |-> DigitsOnly(mp["number"]),
     issued_by |-> mp["issued_by"],
     issued_date |-> issued_date,
     photo_path |-> None]

\* the outcome of a call that raises exception
Raised(exception) == [raised |-> TRUE, error |-> exception]

\* lines 61-71, given the parsed date
ParseBuildOutcome(mp, issued_date) ==
    IF issued_date = NoneRec THEN Raised("ValueError: date")
    ELSE IF issued_date = OverflowRec THEN Raised("OverflowError")
    ELSE [raised |-> FALSE, passport |-> ParsedPassport(mp, issued_date)]

\* lines 57-71, given mapped
ParseMappedOutcome(mp) ==
    IF MissingFields(mp) # <<>> THEN Raised("ValueError: missing fields")
    ELSE ParseBuildOutcome(mp, DateutilParse(mp["issued_date"]))

\* lines 35-71, given cleaned
ParseCleanedOutcome(cleaned) ==
    IF cleaned = <<>> THEN Raised("ValueError: empty text")
    ELSE ParseMappedOutcome(
             MapFields(CollectData(TextLines(cleaned), Len(TextLines(cleaned)))))

\* parse_passport_text as a function: what a caller observes
ParsePassportText(txt) == ParseCleanedOutcome(Strip(txt))

-----------------------------------------------------------------------------
(* bot/utils/schedule.py *)

BASE_MONTHLY == 10000
SECOND_MONTH_EXTRA == 17000
THIRD_MONTH_EXTRA == 25000

\* Bounds of the schedule inputs: totals up to MaxTotal, sampled around
\* every multiple of AmountStep (one below, exact, one above).
MaxTotal == 135000
AmountStep == 1000

ScheduleTotals ==
    {t \in 1..MaxTotal : t % AmountStep \in {0, 1, AmountStep - 1}}

ScheduleStartDates ==
    {dt \in {MkDate(y, m, d) : y \in {2023, 2024, MAXYEAR},
                               m \in {1, 3, 11, 12},
                               d \in {25, 31}} : IsValidDate(dt)}

\* the if/elif chain choosing the nominal amount of a month
NominalAmountLateExtra(mon) ==
    IF mon = 1 THEN BASE_MONTHLY
    ELSE IF mon = 2 THEN BASE_MONTHLY + SECOND_MONTH_EXTRA
    ELSE BASE_MONTHLY + THIRD_MONTH_EXTRA

NominalAmount(mon) ==
    IF mon = 1 THEN BASE_MONTHLY
    ELSE IF mon = 2 THEN BASE_MONTHLY + SECOND_MONTH_EXTRA
    ELSE IF mon = 3 THEN BASE_MONTHLY + THIRD_MONTH_EXTRA
    ELSE BASE_MONTHLY

\* amount = min(remaining, nominal)
LoopAmountUncapped(rem, mon) == NominalAmount(mon)

LoopAmount(rem, mon) == Min(rem, NominalAmount(mon))

\* due_date = start_date + relativedelta(months=month - 1)
DueDateOffByOne(start, mon) == AddMonths(start, mon)

DueDate(start, mon) == AddMonths(start, mon - 1)

\* the loop guard "while remaining > 0"
LoopGuardNonNegative(rem) == rem >= 0

LoopGuard(rem) == rem > 0

\* the schedule builder not running
SchedIdle ==
    /\ sch_pc = "idle"
    /\ start_date = NoneRec
    /\ total_amount = 0
    /\ payments = <<>>
    /\ remaining = 0
    /\ month = 0

SchedInit ==
    /\ sch_pc = "loop"
    /\ start_date \in ScheduleStartDates
    /\ total_amount \in ScheduleTotals
    /\ payments = <<>>
    /\ remaining = total_amount
    /\ month = 0

\* One iteration of the while loop.
SchedLoopIter ==
    /\ sch_pc = "loop"
    /\ LoopGuard(remaining)
    /\ month' = month + 1
    /\ LET amount == LoopAmount(remaining, month')
           due_date == DueDate(start_date, month')
       IN IF due_date.y > MAXYEAR
          THEN /\ sch_pc' = "raised"
               /\ UNCHANGED <<payments, remaining>>
          ELSE /\ payments' = Append(payments,
                       [month_index |-> month',
                        due_date |-> due_date,
                        amount |-> amount])
               /\ remaining' = remaining - amount
               /\ sch_pc' = "loop"
    /\ UNCHANGED <<start_date, total_amount>>
    /\ UNCHANGED <<rec_vars, parse_vars, dlg_vars, reader_vars, store_vars, users_vars>>

\* The loop guard fails: return payments.
SchedReturn ==
    /\ sch_pc = "loop"
    /\ ~LoopGuard(remaining)
    /\ sch_pc' = "done"
    /\ UNCHANGED <<start_date, total_amount, payments, remaining, month>>
    /\ UNCHANGED <<rec_vars, parse_vars, dlg_vars, reader_vars, store_vars, users_vars>>

SchedNext == SchedLoopIter \/ SchedReturn


-----------------------------------------------------------------------------
(* recognize_passport_image as a process; the OCR output is the input *)

\* Blocks of raw OCR lines; a document is one choice per block, in this
\* order, of at most MaxOcrLines lines.
MaxOcrLines == 7

BlankBlocks == {<<>>, <<Chars("  ")>>}

NameBlocks ==
    {<<>>,
     <<Chars("Familiq"), Chars("Ivanov"), Chars("Imq"), Chars("Ivan"),
       Chars("Othestvo"), Chars("Ivanovih")>>,
     <<Chars("Familiq"), Chars("Ivanov"), Chars("Imq"), Chars("Ivan")>>,
     <<Chars("Ivanov  Ivan Ivanovih")>>,
     <<Chars("PETROV"), Chars("Petr")>>}

SeriesBlocks ==
    {<<>>, <<Chars("12 34  567890")>>, <<Chars("1234 56789")>>}

IssuedByBlocks ==
    {<<>>, <<Chars("Kem vydan: OVD rajona")>>, <<Chars("UFMS"), Chars("goroda Moskvy")>>}

DateBlocks ==
    {<<>>, <<Chars("Data vydahi 01.02.2020")>>, <<Chars("31.02.2020")>>,
     <<Chars("01.02.2020"), Chars("05.06.2019")>>}

DivisionBlocks == {<<>>, <<Chars("770-001")>>}

\* documents whose dates exercise the four strategies of _extract_issued_date
IssuedDateDocs ==
    {<<Chars("01.02.2020")>>,
     <<Chars("01.02.2020"), Chars("01 02 2020")>>,
     <<Chars("31.02.2020"), Chars("05.06.2019")>>,
     <<Chars("Data vydahi 31.02.2020"), Chars("05.06.2019")>>,
     <<Chars("Ivanov Ivan"), Chars("01.02.2020"), Chars("UFMS"), Chars("05.06.2019"),
       Chars("05.06.2019")>>,
     <<Chars("01.02.2020 vydan")>>,
     <<Chars("31.02.2020 vydan 05.06.2019")>>,
     <<Chars("Vydan"), Chars("31.02.2020"), Chars("01.02.2020")>>,
     <<Chars("02.13.2021")>>,
     <<Chars("00.00.0000"), Chars("1234 567890")>>}

\* documents around the name labels and the runs of name lines
NameDocs ==
    {<<Chars("Familiq"), Chars("Ivanov"), Chars("Othestvo"), Chars("Ivanovih")>>,
     <<Chars("Imq"), Chars("Ivan"), Chars("Othestvo"), Chars("Ivanovih")>>,
     <<Chars("Imq"), Chars("Ivan Ivanovih")>>,
     <<Chars("Familiq"), Chars("Imq"), Chars("Ivan")>>,
     <<Chars("Familiq"), Chars("Ivanov"), Chars("Imq"), Chars("Othestvo"),
       Chars("Ivanovih")>>,
     <<Chars("Familiq"), Chars("12"), Chars("Ivanov"), Chars("Imq"), Chars("Ivan")>>,
     <<Chars("Ivanov"), Chars("Ivan x Ivanovih")>>,
     <<Chars("Ivanov x Ivan"), Chars("Ivanovih")>>,
     <<Chars("Ivanov"), Chars("12"), Chars("Ivan x Ivanovih")>>,
     <<Chars("Ivanov x Ivan"), Chars("Ivanovih"), Chars("Petrov")>>}

OcrInputs ==
    {doc \in {b0 \o b1 \o b2 \o b3 \o b4 \o b5 :
                 b0 \in BlankBlocks, b1 \in NameBlocks, b2 \in SeriesBlocks,
                 b3 \in IssuedByBlocks, b4 \in DateBlocks, b5 \in DivisionBlocks}
            \cup IssuedDateDocs \cup NameDocs :
        Len(doc) <= MaxOcrLines}

\* recognition not running
RecIdle ==
    /\ rec_pc = "idle"
    /\ raw_lines = <<>>
    /\ rec_lines = <<>>
    /\ rec_result = EmptyResult
    /\ rec_error = ""
    /\ rec_return = NoneRec

RecInit ==
    /\ rec_pc = "ocr"
    /\ raw_lines = <<>>
    /\ rec_lines = <<>>
    /\ rec_result = EmptyResult
    /\ rec_error = ""
    /\ rec_return = NoneRec

\* reader.readtext(...): returns a list of lines, or raises and the except
\* clause raises PassportRecognitionError
RecReadText ==
    /\ rec_pc = "ocr"
    /\ \/ /\ \E doc \in OcrInputs : raw_lines' = doc
          /\ rec_pc' = "normalize"
          /\ rec_error' = rec_error
       \/ /\ raw_lines' = raw_lines
          /\ rec_pc' = "raised"
          /\ rec_error' = "ocr failed"
    /\ UNCHANGED <<rec_lines, rec_result, rec_return>>
    /\ UNCHANGED <<sched_vars, parse_vars, dlg_vars, reader_vars, store_vars, users_vars>>

\* lines = [...]; if not lines: raise
RecNormalize ==
    /\ rec_pc = "normalize"
    /\ rec_lines' = NormalizeLines(raw_lines)
    /\ IF rec_lines' = <<>>
       THEN rec_pc' = "raised" /\ rec_error' = "no text"
       ELSE rec_pc' = "build" /\ rec_error' = rec_error
    /\ UNCHANGED <<raw_lines, rec_result, rec_return>>
    /\ UNCHANGED <<sched_vars, parse_vars, dlg_vars, reader_vars, store_vars, users_vars>>

\* result = _build_passport_from_lines(lines)
RecBuild ==
    /\ rec_pc = "build"
    /\ rec_result' = BuildPassportFromLines(rec_lines)
    /\ rec_pc' = "decide"
    /\ UNCHANGED <<raw_lines, rec_lines, rec_error, rec_return>>
    /\ UNCHANGED <<sched_vars, parse_vars, dlg_vars, reader_vars, store_vars, users_vars>>

\* passport = ...; if not result.get("recognized_fields"): raise;
\* return passport, result
RecDecide ==
    /\ rec_pc = "decide"
    /\ IF NoFieldRecognized(rec_result)
       THEN /\ rec_pc' = "raised"
            /\ rec_error' = "no fields"
            /\ rec_return' = rec_return
       ELSE /\ rec_pc' = "returned"
            /\ rec_error' = rec_error
            /\ rec_return' = [passport |-> PassportOf(rec_result),
                              result |-> rec_result]
    /\ UNCHANGED <<raw_lines, rec_lines, rec_result>>
    /\ UNCHANGED <<sched_vars, parse_vars, dlg_vars, reader_vars, store_vars, users_vars>>

RecNext == RecReadText \/ RecNormalize \/ RecBuild \/ RecDecide

-----------------------------------------------------------------------------
(* parse_passport_text as a process; the text is the input *)

\* most lines a text is made of
MaxTextLines == 5

NameLines ==
    {<<>>, <<Chars("FIO: Ivanov Ivan")>>, <<Chars(" F.I.O - Petrov ")>>,
     <<Chars("FIO Ivanov")>>, <<Chars("Familiq:")>>,
     <<Chars("FIO: Ivanov"), Chars("fio : Sidorov")>>}

SeriesLines ==
    {<<>>, <<Chars("Seriq: 12 34")>>, <<Chars("Seriq i nomer: 1234 567890")>>}

NumberLines == {<<>>, <<Chars("Nomer - 567890")>>}

IssuedByLines == {<<>>, <<Chars("Kem vydan: OVD-5")>>, <<Chars("Organ: UFMS")>>}

IssuedDateLines ==
    {<<>>, <<Chars("Data vydahi: 01.02.2020")>>, <<Chars("Vydan: 31.02.2020")>>,
     <<Chars("Vydan: 01.02.2020")>>,
     <<Chars("data vydahi - skoro")>>, <<Chars("Data vydahi:")>>,
     <<Chars("Data vydahi: 01.02.10000")>>, <<Chars("Data vydahi: 01.02.9999999999")>>}

\* a date as DD.MM.YYYY, the form of the prompt of cmd_manual
FormatDate(dt) ==
    ZeroPad(dt.d, 2) \o <<".">> \o ZeroPad(dt.m, 2) \o <<".">> \o ZeroPad(dt.y, 4)

\* a PassportData written in the format that cmd_manual asks for: the five
\* lines "label: value" in the order FIO, series, number, issued by, date
ManualFormat(passport) ==
    Join(<<Chars("FIO: ") \o passport.full_name,
           Chars("Seriq: ") \o passport.series,
           Chars("Nomer: ") \o passport.number,
           Chars("Kem vydan: ") \o passport.issued_by,
           Chars("Data vydahi: ") \o FormatDate(passport.issued_date)>>, <<"\n">>)

\* records with single-line, trimmed, non-empty texts and digit-only series
\* and number, some holding a label, a colon or a dash inside a value
FormattablePassports ==
    [full_name : {Chars("Ivanov Ivan Ivanovih"), Chars("Nomer: 5"), Chars("Vydan-Petrov")},
     series : {Chars("1234"), Chars("0")},
     number : {Chars("567890")},
     issued_by : {Chars("OVD-5"), Chars("Data vydahi: 01.01.2001")},
     issued_date : {MkDate(2020, 2, 1), MkDate(2021, 5, 13), MkDate(12, 12, 31)},
     photo_path : {None}]

\* the texts a user may send: blank texts, one choice per kind of line with
\* the issued-date line first or last, and the formatted records
ManualTexts ==
    {<<>>, Chars(" \n ")}
    \cup {ManualFormat(passport) : passport \in FormattablePassports}
    \cup {Join(ls, <<"\n">>) :
            ls \in {l \in {b1 \o b2 \o b3 \o b4 \o b5 :
                             b1 \in NameLines, b2 \in SeriesLines, b3 \in NumberLines,
                             b4 \in IssuedByLines, b5 \in IssuedDateLines}
                         \cup {b5 \o b1 \o b2 \o b3 \o b4 :
                                 b1 \in NameLines, b2 \in SeriesLines, b3 \in NumberLines,
                                 b4 \in IssuedByLines, b5 \in IssuedDateLines} :
                       Len(l) >= 1 /\ Len(l) <= MaxTextLines}}

\* parsing not running
ParseIdle ==
    /\ parse_pc = "idle"
    /\ raw_text = <<>>
    /\ data = <<>>
    /\ mapped = <<>>
    /\ parse_error = ""
    /\ parse_return = NoneRec

ParseInit ==
    /\ parse_pc = "clean"
    /\ raw_text \in ManualTexts
    /\ data = <<>>
    /\ mapped = <<>>
    /\ parse_error = ""
    /\ parse_return = NoneRec

\* cleaned = raw_text.strip(); if not cleaned: raise ValueError
ParseClean ==
    /\ parse_pc = "clean"
    /\ IF Strip(raw_text) = <<>>
       THEN parse_pc' = "raised" /\ parse_error' = "ValueError: empty text"
       ELSE parse_pc' = "collect" /\ parse_error' = parse_error
    /\ UNCHANGED <<raw_text, data, mapped, parse_return>>
    /\ UNCHANGED <<sched_vars, rec_vars, dlg_vars, reader_vars, store_vars, users_vars>>

\* lines = [...]; the loop filling data
ParseCollect ==
    /\ parse_pc = "collect"
    /\ data' = CollectData(TextLines(Strip(raw_text)), Len(TextLines(Strip(raw_text))))
    /\ parse_pc' = "map"
    /\ UNCHANGED <<raw_text, mapped, parse_error, parse_return>>
    /\ UNCHANGED <<sched_vars, rec_vars, dlg_vars, reader_vars, store_vars, users_vars>>

\* the loop filling mapped; missing; if missing: raise ValueError
ParseMap ==
    /\ parse_pc = "map"
    /\ mapped' = MapFields(data)
    /\ IF MissingFields(mapped') # <<>>
       THEN parse_pc' = "raised" /\ parse_error' = "ValueError: missing fields"
       ELSE parse_pc' = "build" /\ parse_error' = parse_error
    /\ UNCHANGED <<raw_text, data, parse_return>>
    /\ UNCHANGED <<sched_vars, rec_vars, dlg_vars, reader_vars, store_vars, users_vars>>

\* series, number, issued_date (parser.parse may raise); return PassportData
ParseBuild ==
    /\ parse_pc = "build"
    /\ parse_pc' = IF ParseBuildOutcome(mapped, DateutilParse(mapped["issued_date"])).raised
                   THEN "raised" ELSE "returned"
    /\ parse_error' =
          IF ParseBuildOutcome(mapped, DateutilParse(mapped["issued_date"])).raised
          THEN ParseBuildOutcome(mapped, DateutilParse(mapped["issued_date"])).error
          ELSE parse_error
    /\ parse_return' =
          IF ParseBuildOutcome(mapped, DateutilParse(mapped["issued_date"])).raised
          THEN parse_return
          ELSE ParseBuildOutcome(mapped, DateutilParse(mapped["issued_date"])).passport
    /\ UNCHANGED <<raw_text, data, mapped>>
    /\ UNCHANGED <<sched_vars, rec_vars, dlg_vars, reader_vars, store_vars, users_vars>>

ParseNext == ParseClean \/ ParseCollect \/ ParseMap \/ ParseBuild

\* the raise/return decision of recognize_passport_image, given the
\* normalized lines and the result built from them
RecognizeOutcome(lines, result) ==
    IF lines = <<>> THEN [raised |-> TRUE, error |-> "no text"]
    ELSE IF NoFieldRecognized(result) THEN [raised |-> TRUE, error |-> "no fields"]
    ELSE [raised |-> FALSE, passport |-> PassportOf(result), result |-> result]

\* recognize_passport_image as a function of the lines the OCR returned
RecognizeLines(lines) == RecognizeOutcome(lines, BuildPassportFromLines(lines))

\* recognize_passport_image as a function of the OCR outcome
\* (ocr_ok = FALSE: readtext raised): what a caller observes
RecognizePassportImage(ocr_ok, lines_from_ocr) ==
    IF ~ocr_ok THEN [raised |-> TRUE, error |-> "ocr failed"]
    ELSE RecognizeLines(NormalizeLines(lines_from_ocr))


-----------------------------------------------------------------------------
(* bot/utils/schedule.py and bot/utils/counter.py as functions *)

\* Payment(month_index=month, due_date=due_date, amount=amount)
Payment(mon, due_date, amount) ==
    [month_index |-> mon, due_date |-> due_date, amount |-> amount]

\* the while loop from the state (remaining, month, payments)
RECURSIVE ScheduleFrom(_, _, _, _)
ScheduleFrom(start, rem, mon, acc) ==
    IF ~LoopGuard(rem) THEN [raised |-> FALSE, payments |-> acc]
    ELSE IF DueDate(start, mon + 1).y > MAXYEAR
    THEN Raised("ValueError: year out of range")
    ELSE ScheduleFrom(start, rem - LoopAmount(rem, mon + 1), mon + 1,
                      Append(acc, Payment(mon + 1, DueDate(start, mon + 1),
                                          LoopAmount(rem, mon + 1))))

\* build_payment_schedule as a function: what a caller observes
BuildPaymentSchedule(start, total) == ScheduleFrom(start, total, 0, <<>>)

\* f"{counter:05d}": zero padded to five digits, longer numbers unchanged
Format05d(n) ==
    [k \in 1..(5 - Len(DecimalDigits(n))) |-> "0"] \o DecimalDigits(n)

\* "".join(part[0] for part in full_name.split() if part)
Initials(full_name) ==
    [k \in 1..Len(SplitWords(full_name)) |-> SplitWords(full_name)[k][1]]

\* build_contract_number and the line joining its two results
ContractNumber(counter, full_name) ==
    IF Initials(full_name) = <<>> THEN Format05d(counter)
    ELSE Format05d(counter) \o <<"-">> \o Initials(full_name)

-----------------------------------------------------------------------------
(* bot/handlers.py: the dialogue of one user with the router *)

\* most contracts prepared in a run (the counter file is unbounded)
MaxCounter == 2

\* FSM storage data without a key
EmptyData == [k \in {} |-> NoneRec]

\* state.update_data(key=value)
UpdateData(d, key, value) ==
    [k \in DOMAIN d \cup {key} |-> IF k = key THEN value ELSE d[k]]

\* data.pop(key, None); state.set_data(data)
PopData(d, key) == [k \in DOMAIN d \ {key} |-> d[k]]

\* the path the photo is downloaded to
PhotoDestination == Chars("passports/passport_1_a.jpg")

\* the text of the command a user may send in any state
GetContractCommand == Chars("/get_contract")

\* what the OCR may read on a photo sent in the dialogue
PhotoOcrInputs ==
    {<<>>,
     <<Chars("  ")>>,
     <<Chars("1234 56789")>>,
     <<Chars("Ivanov  Ivan Ivanovih"), Chars("12 34  567890"),
       Chars("Kem vydan: OVD rajona"), Chars("Data vydahi 01.02.2020")>>,
     <<Chars("Ivanov  Ivan Ivanovih"), Chars("770-001")>>}

\* messages in the state waiting_for_manual_data; the empty text is a
\* message without text (a photo)
ManualMessages ==
    {<<>>, GetContractCommand,
     Chars("FIO: Ivanov Ivan\nSeriq: 12 34\nNomer - 567890\nKem vydan: OVD-5\nData vydahi: 01.02.2020"),
     Chars("Familiq:\nSeriq: 1234\nNomer: 567890\nKem vydan: OVD-5\nData vydahi: 01.02.2020"),
     Chars("FIO: Petrov Petr\nSeriq: net\nNomer: 567890\nKem vydan: UFMS\nData vydahi: 31.12.2019"),
     Chars("FIO: Ivanov Ivan\nSeriq: 1234\nNomer: 567890\nKem vydan: OVD-5"),
     Chars("FIO: Ivanov Ivan\nSeriq: 1234\nNomer: 567890\nKem vydan: OVD-5\nData vydahi: 31.02.2020"),
     Chars("FIO: Ivanov Ivan\nSeriq: 1234\nNomer: 567890\nKem vydan: OVD-5\nData vydahi: 01.02.9999999999")}

\* messages in the state waiting_for_amount
AmountMessages ==
    {<<>>, GetContractCommand, Chars("0"), Chars("10 000 rub"), Chars("37000")}

\* messages in the state waiting_for_first_payment
DateMessages ==
    {<<>>, GetContractCommand, Chars("25.03.2024"), Chars("31.02.2024"),
     Chars("25.12.9999"), Chars("01.01.9999999999")}

\* the exceptions that "except ValueError" catches
ValueErrors ==
    {"ValueError: empty text", "ValueError: missing fields", "ValueError: date",
     "ValueError: year out of range"}

\* the messages handlers registered before get_last_contract_command take
StatesWithCatchAll ==
    {"waiting_for_passport", "waiting_for_manual_data", "waiting_for_amount",
     "waiting_for_first_payment"}

\* the dialogue before the first update: no FSM state, no data, no counter
\* file, no registry, nothing generated
DlgInit ==
    /\ fsm_state = "none"
    /\ fsm_data = EmptyData
    /\ counter_file = 0
    /\ registry = <<>>
    /\ generated = NoneRec
    /\ handler = ""
    /\ reply = ""
    /\ dlg_error = ""
    /\ photo_outcome = NoneRec
    /\ manual_outcome = NoneRec

\* the handler called neither recognize_passport_image nor
\* parse_passport_text
NoOutcome ==
    /\ photo_outcome' = NoneRec
    /\ manual_outcome' = NoneRec

\* the handler answered and returned
Answered(name, answer) ==
    /\ handler' = name
    /\ reply' = answer
    /\ dlg_error' = ""

\* an exception left the handler after its last answer
Unhandled(name, answer, exception) ==
    /\ handler' = name
    /\ reply' = answer
    /\ dlg_error' = exception

\* /start: state.clear(), then waiting_for_passport
cmd_start ==
    /\ fsm_state' = "waiting_for_passport"
    /\ fsm_data' = EmptyData
    /\ Answered("cmd_start", "send passport")
    /\ UNCHANGED <<counter_file, registry, generated>>
    /\ NoOutcome
    /\ UNCHANGED <<sched_vars, rec_vars, parse_vars, reader_vars, store_vars, users_vars>>

\* /manual in any state: the data is kept
cmd_manual ==
    /\ fsm_state' = "waiting_for_manual_data"
    /\ Answered("cmd_manual", "enter passport data")
    /\ UNCHANGED <<fsm_data, counter_file, registry, generated>>
    /\ NoOutcome
    /\ UNCHANGED <<sched_vars, rec_vars, parse_vars, reader_vars, store_vars, users_vars>>

\* state.update_data(passport=passport); the summary;
\* state.set_state(passport_confirmation)
present_passport_summary(name, passport) ==
    /\ fsm_data' = UpdateData(fsm_data, "passport", passport)
    /\ fsm_state' = "passport_confirmation"
    /\ Answered(name, "passport summary")
    /\ UNCHANGED <<counter_file, registry, generated>>

\* handle_passport_photo without its except clauses: the error of the
\* recognition leaves the handler
PhotoRecognizedNoExcept(outcome) ==
    /\ photo_outcome' = outcome
    /\ manual_outcome' = NoneRec
    /\ fsm_data' = UpdateData(fsm_data, "passport_photo", PhotoDestination)
    /\ fsm_state' = fsm_state
    /\ Unhandled("handle_passport_photo", "photo received",
                 IF outcome.raised THEN outcome.error ELSE "AttributeError")
    /\ UNCHANGED <<counter_file, registry, generated>>

\* handle_passport_photo once recognize_passport_image returned or raised:
\* a raise leads to manual entry; the returned value is the pair
\* (passport, result), and setting photo_path on it raises AttributeError
\* outside the try statement
PhotoRecognized(outcome) ==
    /\ photo_outcome' = outcome
    /\ manual_outcome' = NoneRec
    /\ fsm_data' = UpdateData(fsm_data, "passport_photo", PhotoDestination)
    /\ IF outcome.raised
       THEN /\ fsm_state' = "waiting_for_manual_data"
            /\ Answered("handle_passport_photo", "recognition failed")
       ELSE /\ fsm_state' = fsm_state
            /\ Unhandled("handle_passport_photo", "photo received", "AttributeError")
    /\ UNCHANGED <<counter_file, registry, generated>>

\* recognize_passport_image on each photo, the OCR working or failing
PhotoOutcomes ==
    {RecognizePassportImage(ocr_ok, doc) : ocr_ok \in BOOLEAN, doc \in PhotoOcrInputs}

\* a photo in the state waiting_for_passport
handle_passport_photo ==
    /\ fsm_state = "waiting_for_passport"
    /\ \E outcome \in PhotoOutcomes : PhotoRecognized(outcome)
    /\ UNCHANGED <<sched_vars, rec_vars, parse_vars, reader_vars, store_vars, users_vars>>

\* any other message in the state waiting_for_passport
prompt_for_passport ==
    /\ fsm_state = "waiting_for_passport"
    /\ Answered("prompt_for_passport", "send passport")
    /\ UNCHANGED <<fsm_state, fsm_data, counter_file, registry, generated>>
    /\ NoOutcome
    /\ UNCHANGED <<sched_vars, rec_vars, parse_vars, reader_vars, store_vars, users_vars>>

\* passport.photo_path = Path(photo_path) when the data holds a photo
WithPhotoPath(passport, d) ==
    IF "passport_photo" \in DOMAIN d /\ Truthy(d["passport_photo"])
    THEN [passport EXCEPT !.photo_path = d["passport_photo"]]
    ELSE passport

\* handle_manual_passport starting the dialogue over on a format error
ManualParsedStartingOver(outcome) ==
    /\ manual_outcome' = outcome
    /\ photo_outcome' = NoneRec
    /\ IF outcome.raised
       THEN /\ fsm_state' = "waiting_for_passport"
            /\ fsm_data' = EmptyData
            /\ Answered("handle_manual_passport", "data not read")
            /\ UNCHANGED <<counter_file, registry, generated>>
       ELSE present_passport_summary("handle_manual_passport",
                                     WithPhotoPath(outcome.passport, fsm_data))

\* handle_manual_passport once parse_passport_text returned or raised:
\* only ValueError is caught
ManualParsed(outcome) ==
    /\ manual_outcome' = outcome
    /\ photo_outcome' = NoneRec
    /\ IF outcome.raised
       THEN /\ IF outcome.error \in ValueErrors
               THEN Answered("handle_manual_passport", "data not read")
               ELSE Unhandled("handle_manual_passport", reply, outcome.error)
            /\ UNCHANGED <<fsm_state, fsm_data, counter_file, registry, generated>>
       ELSE present_passport_summary("handle_manual_passport",
                                     WithPhotoPath(outcome.passport, fsm_data))

\* parse_passport_text(message.text or "") on each message
ManualOutcomes == {ParsePassportText(text) : text \in ManualMessages}

\* any message in the state waiting_for_manual_data
handle_manual_passport ==
    /\ fsm_state = "waiting_for_manual_data"
    /\ \E outcome \in ManualOutcomes : ManualParsed(outcome)
    /\ UNCHANGED <<sched_vars, rec_vars, parse_vars, reader_vars, store_vars, users_vars>>

\* the button "reject_passport": the passport is dropped from the data
reject_passport ==
    /\ fsm_state = "passport_confirmation"
    /\ fsm_data' = PopData(fsm_data, "passport")
    /\ fsm_state' = "waiting_for_manual_data"
    /\ Answered("reject_passport", "enter passport data")
    /\ UNCHANGED <<counter_file, registry, generated>>
    /\ NoOutcome
    /\ UNCHANGED <<sched_vars, rec_vars, parse_vars, reader_vars, store_vars, users_vars>>

\* the button "confirm_passport"
confirm_passport ==
    /\ fsm_state = "passport_confirmation"
    /\ fsm_state' = "waiting_for_amount"
    /\ Answered("confirm_passport", "enter amount")
    /\ UNCHANGED <<fsm_data, counter_file, registry, generated>>
    /\ NoOutcome
    /\ UNCHANGED <<sched_vars, rec_vars, parse_vars, reader_vars, store_vars, users_vars>>

\* _clean_amount: an Optional[int] as a sequence, <<>> for None and <<n>>
\* for the integer n
CleanAmount(text) ==
    IF DigitsOnly(text) = <<>> THEN <<>> ELSE <<IntOf(DigitsOnly(text))>>

\* handle_amount once the amount is cleaned
AmountCleaned(amount) ==
    IF amount = <<>> \/ amount[1] <= 0
    THEN /\ Answered("handle_amount", "amount must be positive")
         /\ UNCHANGED <<fsm_state, fsm_data>>
    ELSE /\ fsm_data' = UpdateData(fsm_data, "total_amount", amount[1])
         /\ fsm_state' = "waiting_for_first_payment"
         /\ Answered("handle_amount", "enter first payment date")

\* _clean_amount(message.text or "") on each message
CleanedAmounts == {CleanAmount(text) : text \in AmountMessages}

\* any message in the state waiting_for_amount
handle_amount ==
    /\ fsm_state = "waiting_for_amount"
    /\ \E amount \in CleanedAmounts : AmountCleaned(amount)
    /\ UNCHANGED <<counter_file, registry, generated>>
    /\ NoOutcome
    /\ UNCHANGED <<sched_vars, rec_vars, parse_vars, reader_vars, store_vars, users_vars>>

\* handle_first_payment from state.update_data(first_payment_date=...) on:
\* the counter file is incremented, then build_payment_schedule returns the
\* payments or raises
\* handle_first_payment keeping a schedule the data already hold
ContractPreparedKeepingSchedule(first_payment_date, schedule, contract_number) ==
    /\ counter_file' = counter_file + 1
    /\ fsm_data' =
          UpdateData(UpdateData(UpdateData(fsm_data,
              "first_payment_date", first_payment_date),
              "payments", IF "payments" \in DOMAIN fsm_data
                          THEN fsm_data["payments"]
                          ELSE IF schedule.raised THEN <<>> ELSE schedule.payments),
              "contract_number", contract_number)
    /\ fsm_state' = "confirmation"
    /\ Answered("handle_first_payment", "contract summary")

ContractPrepared(first_payment_date, schedule, contract_number) ==
    /\ counter_file' = counter_file + 1
    /\ IF schedule.raised
       THEN /\ fsm_data' = UpdateData(fsm_data, "first_payment_date", first_payment_date)
            /\ fsm_state' = fsm_state
            /\ Unhandled("handle_first_payment", reply, schedule.error)
       ELSE /\ fsm_data' =
                  UpdateData(UpdateData(UpdateData(fsm_data,
                      "first_payment_date", first_payment_date),
                      "payments", schedule.payments),
                      "contract_number", contract_number)
            /\ fsm_state' = "confirmation"
            /\ Answered("handle_first_payment", "contract summary")

\* handle_first_payment once parser.parse returned or raised: ValueError and
\* ParserError are caught, OverflowError is not; data["passport"] and
\* data["total_amount"] raise KeyError when absent
FirstPaymentParsed(first_payment_date) ==
    IF first_payment_date = NoneRec
    THEN /\ Answered("handle_first_payment", "date not recognized")
         /\ UNCHANGED <<fsm_state, fsm_data, counter_file>>
    ELSE IF first_payment_date = OverflowRec
    THEN /\ Unhandled("handle_first_payment", reply, "OverflowError")
         /\ UNCHANGED <<fsm_state, fsm_data, counter_file>>
    ELSE IF ~({"passport", "total_amount"} \subseteq DOMAIN fsm_data)
    THEN /\ Unhandled("handle_first_payment", reply, "KeyError")
         /\ UNCHANGED <<fsm_state, fsm_data, counter_file>>
    ELSE ContractPrepared(first_payment_date,
             BuildPaymentSchedule(first_payment_date, fsm_data["total_amount"]),
             ContractNumber(counter_file + 1, fsm_data["passport"].full_name))

\* parser.parse(message.text or "", dayfirst=True).date() on each message
ParsedDateMessages == {DateutilParse(text) : text \in DateMessages}

\* any message in the state waiting_for_first_payment
handle_first_payment ==
    /\ fsm_state = "waiting_for_first_payment"
    /\ counter_file < MaxCounter
    /\ \E first_payment_date \in ParsedDateMessages :
          FirstPaymentParsed(first_payment_date)
    /\ UNCHANGED <<registry, generated>>
    /\ NoOutcome
    /\ UNCHANGED <<sched_vars, rec_vars, parse_vars, reader_vars, store_vars, users_vars>>

\* the button "cancel_contract": state.clear(), then waiting_for_passport
cancel_contract ==
    /\ fsm_state = "confirmation"
    /\ fsm_data' = EmptyData
    /\ fsm_state' = "waiting_for_passport"
    /\ Answered("cancel_contract", "start again")
    /\ UNCHANGED <<counter_file, registry, generated>>
    /\ NoOutcome
    /\ UNCHANGED <<sched_vars, rec_vars, parse_vars, reader_vars, store_vars, users_vars>>

\* text.replace(" ", "_")
ReplaceSpaces(s) == [i \in 1..Len(s) |-> IF s[i] = " " THEN "_" ELSE s[i]]

\* f"dogovor_{contract_number}_{full_name.replace(' ', '_')}"
BaseFilename(contract_number, full_name) ==
    Chars("dogovor_") \o contract_number \o <<"_">> \o ReplaceSpaces(full_name)

\* the ContractContext built from the data, with the paths that
\* generate_documents sets on it
ContractContextOf(d) ==
    [passport |-> d["passport"],
     total_amount |-> d["total_amount"],
     first_payment_date |-> d["first_payment_date"],
     contract_number |-> d["contract_number"],
     payments |-> d["payments"],
     contract_dir |-> ReplaceSpaces(d["passport"].full_name),
     docx_path |-> BaseFilename(d["contract_number"], d["passport"].full_name)
                      \o Chars(".docx"),
     pdf_path |-> BaseFilename(d["contract_number"], d["passport"].full_name)
                     \o Chars(".pdf")]

\* the payload of update_user_contract
RegistryPayload(context) ==
    [client |-> context.passport.full_name,
     contract_number |-> context.contract_number,
     docx_path |-> context.docx_path,
     pdf_path |-> context.pdf_path]

\* the keys confirm_contract reads from the data
ContractKeys ==
    {"passport", "total_amount", "first_payment_date", "payments", "contract_number"}

\* the button "confirm_contract": generate_documents is called with the
\* context, the registry is updated, the files are sent (or Telegram refuses
\* them), state.clear()
confirm_contract ==
    /\ fsm_state = "confirmation"
    /\ IF ContractKeys \subseteq DOMAIN fsm_data
       THEN /\ generated' = ContractContextOf(fsm_data)
            /\ registry' = Append(registry, RegistryPayload(ContractContextOf(fsm_data)))
            /\ fsm_state' = "none"
            /\ fsm_data' = EmptyData
            /\ \E sent \in BOOLEAN :
                  Answered("confirm_contract",
                           IF sent THEN "documents sent" ELSE "documents not sent")
       ELSE /\ Unhandled("confirm_contract", reply, "KeyError")
            /\ UNCHANGED <<fsm_state, fsm_data, registry, generated>>
    /\ UNCHANGED counter_file
    /\ NoOutcome
    /\ UNCHANGED <<sched_vars, rec_vars, parse_vars, reader_vars, store_vars, users_vars>>

\* /get_contract where no earlier handler takes the message: the last
\* contract of the registry is sent when there is one and its files exist
get_last_contract_command ==
    /\ fsm_state \notin StatesWithCatchAll
    /\ IF registry = <<>>
       THEN Answered("get_last_contract_command", "no contracts")
       ELSE \E files_exist \in BOOLEAN :
               Answered("get_last_contract_command",
                        IF files_exist THEN "last contract sent" ELSE "files not found")
    /\ UNCHANGED <<fsm_state, fsm_data, counter_file, registry, generated>>
    /\ NoOutcome
    /\ UNCHANGED <<sched_vars, rec_vars, parse_vars, reader_vars, store_vars, users_vars>>

DlgNext ==
    \/ cmd_start
    \/ cmd_manual
    \/ handle_passport_photo
    \/ prompt_for_passport
    \/ handle_manual_passport
    \/ reject_passport
    \/ confirm_passport
    \/ handle_amount
    \/ handle_first_payment
    \/ cancel_contract
    \/ confirm_contract
    \/ get_last_contract_command

-----------------------------------------------------------------------------
(* bot/utils/passport.py: _get_ocr_reader under the default executor *)

\* the threads of the default executor that run recognize_passport_image
MaxWorkers == 2

\* the calls each thread takes
MaxCalls == 2

Workers == 1..MaxWorkers

\* no call of recognize_passport_image was submitted yet
ReaderInit ==
    /\ easyocr_installed \in BOOLEAN
    /\ reader_cache = NoneRec
    /\ readers_made = 0
    /\ thr_pc = [t \in Workers |-> "idle"]
    /\ thr_reader = [t \in Workers |-> NoneRec]
    /\ thr_calls = [t \in Workers |-> 0]

\* the component in the runs of the other components
ReaderIdle ==
    /\ easyocr_installed = TRUE
    /\ reader_cache = NoneRec
    /\ readers_made = 0
    /\ thr_pc = [t \in Workers |-> "idle"]
    /\ thr_reader = [t \in Workers |-> NoneRec]
    /\ thr_calls = [t \in Workers |-> 0]

\* loop.run_in_executor(None, recognize_passport_image, destination): a
\* thread of the pool starts the call, whose first statement is
\* reader = _get_ocr_reader()
run_in_executor(t) ==
    /\ thr_pc[t] = "idle"
    /\ thr_calls[t] < MaxCalls
    /\ thr_calls' = [thr_calls EXCEPT ![t] = @ + 1]
    /\ thr_pc' = [thr_pc EXCEPT ![t] = "lookup"]
    /\ UNCHANGED <<easyocr_installed, reader_cache, readers_made, thr_reader>>
    /\ UNCHANGED <<sched_vars, rec_vars, parse_vars, dlg_vars, store_vars, users_vars>>

\* @lru_cache(maxsize=1): the key () is in the cache, its value is returned
CacheHit(t) ==
    /\ thr_pc[t] = "lookup"
    /\ reader_cache # NoneRec
    /\ thr_reader' = [thr_reader EXCEPT ![t] = reader_cache]
    /\ thr_pc' = [thr_pc EXCEPT ![t] = "readtext"]
    /\ UNCHANGED <<easyocr_installed, reader_cache, readers_made, thr_calls>>
    /\ UNCHANGED <<sched_vars, rec_vars, parse_vars, dlg_vars, store_vars, users_vars>>

\* @lru_cache(maxsize=1): the key () is not in the cache, the wrapper goes on
\* to call the function, holding no lock while it runs
CacheMiss(t) ==
    /\ thr_pc[t] = "lookup"
    /\ reader_cache = NoneRec
    /\ thr_pc' = [thr_pc EXCEPT ![t] = "call"]
    /\ UNCHANGED <<easyocr_installed, reader_cache, readers_made, thr_reader, thr_calls>>
    /\ UNCHANGED <<sched_vars, rec_vars, parse_vars, dlg_vars, store_vars, users_vars>>

\* "import easyocr" raises ImportError: PassportRecognitionError leaves the
\* call and nothing is cached
ImportFails(t) ==
    /\ thr_pc[t] = "call"
    /\ ~easyocr_installed
    /\ thr_pc' = [thr_pc EXCEPT ![t] = "raised"]
    /\ UNCHANGED <<easyocr_installed, reader_cache, readers_made, thr_reader, thr_calls>>
    /\ UNCHANGED <<sched_vars, rec_vars, parse_vars, dlg_vars, store_vars, users_vars>>

\* return easyocr.Reader(["ru", "en"], gpu=False)
ConstructReader(t) ==
    /\ thr_pc[t] = "call"
    /\ easyocr_installed
    /\ readers_made' = readers_made + 1
    /\ thr_reader' = [thr_reader EXCEPT ![t] = [reader |-> readers_made + 1]]
    /\ thr_pc' = [thr_pc EXCEPT ![t] = "store"]
    /\ UNCHANGED <<easyocr_installed, reader_cache, thr_calls>>
    /\ UNCHANGED <<sched_vars, rec_vars, parse_vars, dlg_vars, store_vars, users_vars>>

\* @lru_cache(maxsize=1): the wrapper stores the result unless the key was
\* added while the function ran, and returns the result of its own call
CacheStore(t) ==
    /\ thr_pc[t] = "store"
    /\ reader_cache' = IF reader_cache = NoneRec THEN thr_reader[t] ELSE reader_cache
    /\ thr_pc' = [thr_pc EXCEPT ![t] = "readtext"]
    /\ UNCHANGED <<easyocr_installed, readers_made, thr_reader, thr_calls>>
    /\ UNCHANGED <<sched_vars, rec_vars, parse_vars, dlg_vars, store_vars, users_vars>>

\* the rest of recognize_passport_image runs with the reader the thread
\* holds, or the error leaves the call; the thread is free again
CallDone(t) ==
    /\ thr_pc[t] \in {"readtext", "raised"}
    /\ thr_pc' = [thr_pc EXCEPT ![t] = "idle"]
    /\ thr_reader' = [thr_reader EXCEPT ![t] = NoneRec]
    /\ UNCHANGED <<easyocr_installed, reader_cache, readers_made, thr_calls>>
    /\ UNCHANGED <<sched_vars, rec_vars, parse_vars, dlg_vars, store_vars, users_vars>>

ReaderNext ==
    \E t \in Workers :
        \/ run_in_executor(t)
        \/ CacheHit(t)
        \/ CacheMiss(t)
        \/ ImportFails(t)
        \/ ConstructReader(t)
        \/ CacheStore(t)
        \/ CallDone(t)

-----------------------------------------------------------------------------
(* bot/utils/counter.py and bot/utils/registry.py: the persisted stores *)

\* the calls of load_and_increment
MaxIncrements == 3

\* the calls of update_user_contract
MaxAppends == 3

\* the user ids
MaxUsers == 2

UserIds == 1..MaxUsers

\* a file that does not exist, and one whose text is not JSON
AbsentFile == [kind |-> "absent"]

CorruptFile == [kind |-> "corrupt"]

\* a counter file that is never written
CounterFileNotWritten(current) == [kind |-> "absent"]

\* the counter file as json.dump writes it: {"value": current}
CounterFile(current) == [kind |-> "dict", value |-> <<current>>]

\* data.get("value", 0) after the file was read: {} stands in for a file that
\* is absent or not JSON
StoredValue(file) ==
    IF file.kind = "dict" /\ file.value # <<>> THEN file.value[1] ELSE 0

\* the increment of a counter that was never read from the file
NextValueOfEmptyData(file) == 0 + 1

\* current = int(data.get("value", 0)) + 1
NextValue(file) == StoredValue(file) + 1

\* load_registry, then registry.setdefault("users", {})
LoadUsers(file) ==
    IF file.kind = "dict" THEN file.users ELSE [u \in {} |-> NoneRec]

\* users.setdefault(str(user_id), {}).setdefault("contracts", [])
History(users, user_id) ==
    IF user_id \in DOMAIN users THEN users[user_id].contracts ELSE <<>>

\* an entry that keeps the last payload only
UserEntryReplaced(users, user_id, payload) ==
    [contracts |-> <<payload>>, last_contract |-> payload]

\* history.append(payload); user_entry["last_contract"] = payload
UserEntry(users, user_id, payload) ==
    [contracts |-> Append(History(users, user_id), payload),
     last_contract |-> payload]

\* the dict save_registry writes
UpdatedUsers(users, user_id, payload) ==
    [u \in DOMAIN users \cup {user_id} |->
        IF u = user_id THEN UserEntry(users, user_id, payload) ELSE users[u]]

\* registry.get("users", {}).get(str(user_id), {}).get("last_contract"):
\* <<>> for None
GetLastContract(file, user_id) ==
    IF user_id \in DOMAIN LoadUsers(file)
    THEN <<LoadUsers(file)[user_id].last_contract>>
    ELSE <<>>

\* the payloads of the calls
Payloads ==
    {[client |-> "Ivanov Ivan Ivanovih", contract_number |-> "00001-III",
      docx_path |-> "00001-III.docx", pdf_path |-> "00001-III.pdf"],
     [client |-> "Petrov Petr", contract_number |-> "00002-PP",
      docx_path |-> "00002-PP.docx", pdf_path |-> "00002-PP.pdf"]}

\* the files before the first call: not there, or there without the data
StoreInit ==
    /\ counter_json \in {AbsentFile, CorruptFile, [kind |-> "dict", value |-> <<>>]}
    /\ registry_json \in {AbsentFile, CorruptFile,
                          [kind |-> "dict", users |-> [u \in {} |-> NoneRec]]}
    /\ returned = <<>>
    /\ appended = [u \in UserIds |-> <<>>]
    /\ last_got = NoneRec

\* the stores in the runs of the other components
StoreIdle ==
    /\ counter_json = AbsentFile
    /\ registry_json = AbsentFile
    /\ returned = <<>>
    /\ appended = [u \in UserIds |-> <<>>]
    /\ last_got = NoneRec

\* load_and_increment(counter_file)
load_and_increment ==
    /\ Len(returned) < MaxIncrements
    /\ counter_json' = CounterFile(NextValue(counter_json))
    /\ returned' = Append(returned, NextValue(counter_json))
    /\ last_got' = NoneRec
    /\ UNCHANGED <<registry_json, appended>>
    /\ UNCHANGED <<sched_vars, rec_vars, parse_vars, dlg_vars, reader_vars, users_vars>>

\* how many payloads were appended so far
RECURSIVE AppendCount(_)
AppendCount(users) ==
    IF users = {} THEN 0
    ELSE LET u == CHOOSE x \in users : TRUE
         IN Len(appended[u]) + AppendCount(users \ {u})

\* update_user_contract(path, user_id, payload)
update_user_contract(user_id, payload) ==
    /\ AppendCount(UserIds) < MaxAppends
    /\ registry_json' =
          [kind |-> "dict",
           users |-> UpdatedUsers(LoadUsers(registry_json), user_id, payload)]
    /\ appended' = [appended EXCEPT ![user_id] = Append(@, payload)]
    /\ last_got' = NoneRec
    /\ UNCHANGED <<counter_json, returned>>
    /\ UNCHANGED <<sched_vars, rec_vars, parse_vars, dlg_vars, reader_vars, users_vars>>

\* get_last_contract(path, user_id)
get_last_contract(user_id) ==
    /\ last_got' = [user_id |-> user_id,
                    result |-> GetLastContract(registry_json, user_id)]
    /\ UNCHANGED <<counter_json, registry_json, returned, appended>>
    /\ UNCHANGED <<sched_vars, rec_vars, parse_vars, dlg_vars, reader_vars, users_vars>>

StoreNext ==
    \/ load_and_increment
    \/ \E user_id \in UserIds, payload \in Payloads :
          update_user_contract(user_id, payload)
    \/ \E user_id \in UserIds : get_last_contract(user_id)

-----------------------------------------------------------------------------
(* bot/handlers.py: the dialogues of several users on one event loop *)

\* the full names the users enter
UserFullName(u) ==
    IF u = 1 THEN Chars("Ivanov Ivan Ivanovih") ELSE Chars("Petrov Petr")

\* the payload confirm_contract records for a contract number
UserPayload(u, contract_number) ==
    [client |-> UserFullName(u),
     contract_number |-> contract_number,
     docx_path |-> BaseFilename(contract_number, UserFullName(u)) \o Chars(".docx"),
     pdf_path |-> BaseFilename(contract_number, UserFullName(u)) \o Chars(".pdf")]

UsersInit ==
    /\ usr_state = [u \in UserIds |-> "none"]
    /\ usr_pc = [u \in UserIds |-> "idle"]
    /\ usr_counter = [u \in UserIds |-> 0]
    /\ usr_number = [u \in UserIds |-> <<>>]

\* cmd_start, the passport handlers, confirm_passport and handle_amount of a
\* user, none of which reads or writes the counter, the registry or
\* contract_number: the user is asked for the date of the first payment
ReachFirstPayment(u) ==
    /\ usr_pc[u] = "idle"
    /\ usr_state[u] \in {"none", "waiting_for_passport"}
    /\ usr_state' = [usr_state EXCEPT ![u] = "waiting_for_first_payment"]
    /\ UNCHANGED <<usr_pc, usr_counter, usr_number>>
    /\ UNCHANGED <<sched_vars, rec_vars, parse_vars, dlg_vars, reader_vars, store_vars>>

\* handle_first_payment up to "await state.update_data(first_payment_date=...)"
FirstPaymentBegin(u) ==
    /\ usr_pc[u] = "idle"
    /\ usr_state[u] = "waiting_for_first_payment"
    /\ Len(returned) + Cardinality({v \in UserIds : usr_pc[v] = "update_data"})
          < MaxIncrements
    /\ usr_pc' = [usr_pc EXCEPT ![u] = "update_data"]
    /\ UNCHANGED <<usr_state, usr_counter, usr_number>>
    /\ UNCHANGED <<sched_vars, rec_vars, parse_vars, dlg_vars, reader_vars, store_vars>>

\* counter = load_and_increment(...), build_contract_number and
\* build_payment_schedule: no await between them
FirstPaymentCount(u) ==
    /\ usr_pc[u] = "update_data"
    /\ counter_json' = CounterFile(NextValue(counter_json))
    /\ returned' = Append(returned, NextValue(counter_json))
    /\ usr_counter' = [usr_counter EXCEPT ![u] = NextValue(counter_json)]
    /\ usr_pc' = [usr_pc EXCEPT ![u] = "counted"]
    /\ UNCHANGED <<usr_state, usr_number, registry_json, appended, last_got>>
    /\ UNCHANGED <<sched_vars, rec_vars, parse_vars, dlg_vars, reader_vars>>

\* await state.update_data(payments=..., contract_number=...), the summary
\* and set_state(confirmation)
FirstPaymentStore(u) ==
    /\ usr_pc[u] = "counted"
    /\ usr_number' =
          [usr_number EXCEPT ![u] = ContractNumber(usr_counter[u], UserFullName(u))]
    /\ usr_counter' = [usr_counter EXCEPT ![u] = 0]
    /\ usr_state' = [usr_state EXCEPT ![u] = "confirmation"]
    /\ usr_pc' = [usr_pc EXCEPT ![u] = "idle"]
    /\ UNCHANGED <<sched_vars, rec_vars, parse_vars, dlg_vars, reader_vars, store_vars>>

\* cancel_contract of a user: state.clear(), waiting_for_passport
CancelContract(u) ==
    /\ usr_pc[u] = "idle"
    /\ usr_state[u] = "confirmation"
    /\ usr_number' = [usr_number EXCEPT ![u] = <<>>]
    /\ usr_state' = [usr_state EXCEPT ![u] = "waiting_for_passport"]
    /\ UNCHANGED <<usr_pc, usr_counter>>
    /\ UNCHANGED <<sched_vars, rec_vars, parse_vars, dlg_vars, reader_vars, store_vars>>

\* confirm_contract up to "await generate_documents(context, client_dir)"
ConfirmBegin(u) ==
    /\ usr_pc[u] = "idle"
    /\ usr_state[u] = "confirmation"
    /\ usr_pc' = [usr_pc EXCEPT ![u] = "generate"]
    /\ UNCHANGED <<usr_state, usr_counter, usr_number>>
    /\ UNCHANGED <<sched_vars, rec_vars, parse_vars, dlg_vars, reader_vars, store_vars>>

\* update_user_contract(config.registry_file, callback.from_user.id, {...})
ConfirmRecord(u) ==
    /\ usr_pc[u] = "generate"
    /\ registry_json' =
          [kind |-> "dict",
           users |-> UpdatedUsers(LoadUsers(registry_json), u,
                                  UserPayload(u, usr_number[u]))]
    /\ appended' = [appended EXCEPT ![u] = Append(@, UserPayload(u, usr_number[u]))]
    /\ usr_pc' = [usr_pc EXCEPT ![u] = "answer"]
    /\ UNCHANGED <<usr_state, usr_counter, usr_number, counter_json, returned, last_got>>
    /\ UNCHANGED <<sched_vars, rec_vars, parse_vars, dlg_vars, reader_vars>>

\* the answers with the documents, then "await state.clear()"
ConfirmClear(u) ==
    /\ usr_pc[u] = "answer"
    /\ usr_number' = [usr_number EXCEPT ![u] = <<>>]
    /\ usr_state' = [usr_state EXCEPT ![u] = "none"]
    /\ usr_pc' = [usr_pc EXCEPT ![u] = "idle"]
    /\ UNCHANGED usr_counter
    /\ UNCHANGED <<sched_vars, rec_vars, parse_vars, dlg_vars, reader_vars, store_vars>>

UsersNext ==
    \E u \in UserIds :
        \/ ReachFirstPayment(u)
        \/ FirstPaymentBegin(u)
        \/ FirstPaymentCount(u)
        \/ FirstPaymentStore(u)
        \/ CancelContract(u)
        \/ ConfirmBegin(u)
        \/ ConfirmRecord(u)
        \/ ConfirmClear(u)

-----------------------------------------------------------------------------
(* The specifications *)

\* a run of recognize_passport_image alone
InitRecognize == RecInit /\ SchedIdle /\ ParseIdle /\ DlgInit /\ ReaderIdle /\ StoreIdle /\ UsersInit

SpecRecognize == InitRecognize /\ [][RecNext]_vars

\* a run of build_payment_schedule alone
InitSchedule == SchedInit /\ RecIdle /\ ParseIdle /\ DlgInit /\ ReaderIdle /\ StoreIdle /\ UsersInit

SpecSchedule == InitSchedule /\ [][SchedNext]_vars

\* a run of parse_passport_text alone
InitParse == ParseInit /\ SchedIdle /\ RecIdle /\ DlgInit /\ ReaderIdle /\ StoreIdle /\ UsersInit

SpecParse == InitParse /\ [][ParseNext]_vars

\* the dialogue of a user with the bot
InitDialogue == DlgInit /\ SchedIdle /\ RecIdle /\ ParseIdle /\ ReaderIdle /\ StoreIdle /\ UsersInit

SpecDialogue == InitDialogue /\ [][DlgNext]_vars

\* the recognize_passport_image calls of the executor threads, as far as the
\* reader goes
InitReader == ReaderInit /\ SchedIdle /\ RecIdle /\ ParseIdle /\ DlgInit /\ StoreIdle /\ UsersInit

SpecReader == InitReader /\ [][ReaderNext]_vars

\* calls of the counter and the registry functions, one after the other
InitStore ==
    StoreInit /\ SchedIdle /\ RecIdle /\ ParseIdle /\ DlgInit /\ ReaderIdle /\ UsersInit

SpecStore == InitStore /\ [][StoreNext]_vars

\* the dialogues of the users, their handlers interleaved at the awaits
InitUsers ==
    UsersInit /\ StoreInit /\ SchedIdle /\ RecIdle /\ ParseIdle /\ DlgInit /\ ReaderIdle

SpecUsers == InitUsers /\ [][UsersNext]_vars

-----------------------------------------------------------------------------
(* Claims about build_payment_schedule, checked under SpecSchedule *)

\* C1: after every loop iteration sum(amounts so far) + remaining equals
\* total_amount; every payment amount is > 0 (no zero or negative payment,
\* no zero-amount trailing payment); on return the amounts sum exactly to
\* total_amount.
C1_SumPlusRemainingIsTotal ==
    /\ SumAmounts(payments) + remaining = total_amount
    /\ \A k \in 1..Len(payments) : payments[k].amount > 0
    /\ sch_pc = "done" =>
          /\ SumAmounts(payments) = total_amount
          /\ Len(payments) >= 1

C1_Witness ==
    /\ sch_pc = "done"
    /\ Len(payments) >= 4
    /\ payments[Len(payments)].amount < BASE_MONTHLY

\* C7: the payment of month k is min(balance before month k, nominal(k))
\* with nominal 10000, 27000, 35000 for months 1, 2, 3 and 10000 from month
\* 4 on; every payment but the last of a returned schedule equals its
\* nominal amount.
C7_Nominal(k) ==
    IF k = 1 THEN 10000
    ELSE IF k = 2 THEN 27000
    ELSE IF k = 3 THEN 35000
    ELSE 10000

C7_BalanceBefore(k) ==
    total_amount - SumAmounts(SubSeq(payments, 1, k - 1))

C7_AmountIsMinOfBalanceAndNominal ==
    \A k \in 1..Len(payments) :
        /\ payments[k].amount =
               Min(C7_BalanceBefore(k), C7_Nominal(payments[k].month_index))
        /\ k < Len(payments) => payments[k].amount = C7_Nominal(k)

C7_Witness ==
    /\ sch_pc = "done"
    /\ Len(payments) >= 5
    /\ payments[3].amount = 35000
    /\ payments[4].amount = 10000
    /\ payments[Len(payments)].amount < 10000

\* C8: the k-th payment has month_index k and is due (k-1) calendar months
\* after start_date (same day of month, clamped to the month's length), so
\* due dates are valid dates, strictly increasing, one calendar month apart.
C8_IndicesAndDueDates ==
    \A k \in 1..Len(payments) :
        LET due == payments[k].due_date
        IN /\ payments[k].month_index = k
           /\ IsValidDate(due)
           /\ MonthOrdinal(due) = MonthOrdinal(start_date) + (k - 1)
           /\ due.d = Min(start_date.d, DaysInMonth(due.y, due.m))
           /\ k > 1 => DateLess(payments[k - 1].due_date, due)

C8_Witness ==
    /\ sch_pc = "done"
    /\ Len(payments) >= 4
    /\ start_date.d = 31
    /\ \E k \in 1..Len(payments) : payments[k].due_date.d = 29
    /\ \E k \in 1..Len(payments) : payments[k].due_date.y = start_date.y + 1

\* C9: for every total_amount > 0 the loop terminates, and it is left only
\* by the guard failing with remaining = 0; the balance never becomes
\* negative.
C9_LoopEndsWithZeroBalance ==
    /\ remaining >= 0
    /\ sch_pc # "loop" => (sch_pc = "done" /\ remaining = 0)

\* C10: for 0 < total_amount <= 10000 the schedule is exactly one payment:
\* month_index 1, due on start_date, amount total_amount.
C10_SinglePayment ==
    (0 < total_amount /\ total_amount <= 10000) =>
        /\ sch_pc # "raised"
        /\ Len(payments) <= 1
        /\ \A k \in 1..Len(payments) :
               payments[k] = [month_index |-> 1,
                              due_date |-> start_date,
                              amount |-> total_amount]
        /\ sch_pc = "done" => Len(payments) = 1

C10_Witness ==
    /\ sch_pc = "done"
    /\ total_amount = 5000
    /\ Len(payments) = 1
    /\ start_date.y = MAXYEAR


-----------------------------------------------------------------------------
(* Claims about recognize_passport_image and _build_passport_from_lines *)

\* what the six extractors find in a line list, each called on its own
ExtractedValues(lines) ==
    [full_name |-> ExtractFullName(lines, Join(lines, <<"\n">>)).name,
     series |-> ExtractSeriesNumber(Join(lines, <<"\n">>)).series,
     number |-> ExtractSeriesNumber(Join(lines, <<"\n">>)).number,
     issued_by |-> ExtractIssuedBy(lines),
     issued_date |-> ExtractIssuedDate(Join(lines, <<"\n">>)),
     division_code |-> ExtractDivisionCode(Join(lines, <<"\n">>))]

\* for each mandatory label, in the fixed order: did its extractor find a value
MandatoryFound(lines) ==
    LET v == ExtractedValues(lines)
    IN <<Truthy(v.full_name), Truthy(v.series), Truthy(v.number),
         Truthy(v.issued_by), v.issued_date # NoneRec>>

\* the mandatory labels whose extractor found nothing, in the fixed order
LabelsNotFound(lines) ==
    LET found == MandatoryFound(lines)
        idx == SelectSeq(<<1, 2, 3, 4, 5>>, LAMBDA i : ~found[i])
    IN [k \in 1..Len(idx) |-> MandatoryLabels[idx[k]]]

NoDuplicates(xs) == \A i, j \in 1..Len(xs) : xs[i] = xs[j] => i = j

\* C2: when recognize_passport_image returns, the first component is a
\* PassportData record if and only if all five mandatory fields were
\* extracted, which is if and only if missing_fields is empty; the record
\* carries the five extracted values; otherwise the first component is None;
\* the diagnostics are returned in both cases.
C2_RecordIffAllFiveExtracted ==
    rec_pc = "returned" =>
        /\ rec_return.passport # NoneRec
              <=> (\A i \in 1..5 : MandatoryFound(rec_lines)[i])
        /\ rec_return.passport # NoneRec
              <=> rec_return.result.missing_fields = <<>>
        /\ rec_return.passport # NoneRec =>
              LET v == ExtractedValues(rec_lines)
              IN /\ rec_return.passport.full_name = v.full_name
                 /\ rec_return.passport.series = v.series
                 /\ rec_return.passport.number = v.number
                 /\ rec_return.passport.issued_by = v.issued_by
                 /\ rec_return.passport.issued_date = v.issued_date
        /\ rec_return.result = rec_result
        /\ rec_return.result.recognized_fields # <<>>

\* recognition has returned a record for lines holding all five fields, and
\* (another run) has returned None with diagnostics
C2_Witness ==
    /\ rec_pc = "returned"
    /\ rec_return.passport # NoneRec
    /\ \A i \in 1..5 : MandatoryFound(rec_lines)[i]
    /\ "division_code" \notin DOMAIN rec_return.result.values

\* C3: the diagnostics built by _build_passport_from_lines: missing_fields is
\* exactly the mandatory labels whose extractor found nothing, in the fixed
\* order; recognized_fields and missing_fields have no duplicates and are
\* disjoint; every mandatory label is in exactly one of the two lists; the
\* division-code label is never in missing_fields.
C3_DiagnosticsLists ==
    (rec_pc \in {"decide", "returned"} \/ rec_error = "no fields") =>
        LET missing == rec_result.missing_fields
            recognized == rec_result.recognized_fields
        IN /\ missing = LabelsNotFound(rec_lines)
           /\ NoDuplicates(missing)
           /\ NoDuplicates(recognized)
           /\ \A i \in 1..Len(missing) : ~InSeq(missing[i], recognized)
           /\ \A i \in 1..Len(MandatoryLabels) :
                 InSeq(MandatoryLabels[i], missing) # InSeq(MandatoryLabels[i], recognized)
           /\ ~InSeq(DivisionLabel, missing)

\* a result with several labels missing, several recognized, built from
\* lines without a division code
C3_Witness ==
    /\ rec_pc = "decide"
    /\ Len(rec_result.missing_fields) >= 2
    /\ Len(rec_result.recognized_fields) >= 2
    /\ ~Truthy(ExtractedValues(rec_lines).division_code)

\* none of the six extractors finds anything in the lines
NothingExtracted(lines) ==
    LET v == ExtractedValues(lines)
    IN /\ \A i \in 1..5 : ~MandatoryFound(lines)[i]
       /\ ~Truthy(v.division_code)

\* C4: recognize_passport_image raises PassportRecognitionError, returning
\* neither a record nor diagnostics, when the line list is empty after
\* normalization or when no field at all was recognized; once the OCR
\* backend has returned lines it raises in no other case.
C4_RaisesExactlyWhenNothingRecognized ==
    /\ rec_pc = "raised" => rec_return = NoneRec
    /\ (rec_pc \in {"raised", "returned"} /\ rec_error # "ocr failed") =>
          (rec_pc = "raised"
              <=> \/ NormalizeLines(raw_lines) = <<>>
                  \/ NothingExtracted(NormalizeLines(raw_lines)))

\* recognition raised on lines that hold text but no field
C4_Witness ==
    /\ rec_pc = "raised"
    /\ rec_error = "no fields"
    /\ rec_lines # <<>>
    /\ rec_return = NoneRec

-----------------------------------------------------------------------------
(* Claims about parse_passport_text *)

\* some line of the text is split at a separator and its label contains an
\* alias of the field
HasMatchingLine(txt, field) ==
    \E i \in 1..Len(TextLines(Strip(txt))) :
        LET line == TextLines(Strip(txt))[i]
            sep == SeparatorIndex(line)
        IN /\ sep # 0
           /\ \E a \in 1..Len(FIELD_ALIASES[field]) :
                 Contains(Lower(Strip(SubSeq(line, 1, sep - 1))),
                          FIELD_ALIASES[field][a])

\* C5: parse_passport_text fails with a ValueError when the text is empty or
\* blank, when one of the five fields has no line whose label matches its
\* alias table, or when the issued-date value cannot be parsed; it returns
\* no record for which one of the five fields had no matching line.
C5_ParseFailsWithValueError ==
    parse_pc \in {"raised", "returned"} =>
        /\ Strip(raw_text) = <<>> => parse_pc = "raised"
        /\ (\E i \in 1..Len(FieldNames) : ~HasMatchingLine(raw_text, FieldNames[i]))
              => parse_pc = "raised"
        /\ ("issued_date" \in DOMAIN mapped
               /\ DateutilParse(mapped["issued_date"]) \in {NoneRec, OverflowRec})
              => parse_pc = "raised"
        /\ parse_pc = "raised" =>
              /\ parse_error \in {"ValueError: empty text", "ValueError: missing fields",
                                  "ValueError: date"}
              /\ parse_return = NoneRec
        /\ parse_pc = "returned" =>
              /\ \A i \in 1..Len(FieldNames) : HasMatchingLine(raw_text, FieldNames[i])
              /\ parse_return # NoneRec


-----------------------------------------------------------------------------
(* Claims about _extract_issued_date, checked under SpecRecognize *)

\* the text _build_passport_from_lines hands to the extractors
TextOf(lines) == Join(lines, <<"\n">>)

\* the places of a text where a date token DD.MM.YYYY (dots or spaces) stands
DateTokenPlaces(text) == {k \in 1..Len(text) : DateShapeAt(text, k)}

\* the calendar dates denoted by the date tokens of a text that are valid
ValidTokenDates(text) ==
    {ParseDateString(DateTokenAt(text, k)) : k \in DateTokenPlaces(text)} \ {NoneRec}

\* a date token of the text fails calendar validation
HasInvalidToken(text) ==
    \E k \in DateTokenPlaces(text) : ParseDateString(DateTokenAt(text, k)) = NoneRec

\* one of the three keyword strategies yields a date
KeywordAnchorsDate(text) ==
    \/ IssuedDateByKeywordBefore(text) # NoneRec
    \/ IssuedDateByKeywordAfter(text) # NoneRec
    \/ IssuedDateByNeighbourhood(text) # NoneRec

\* the result of _build_passport_from_lines is available
ResultBuilt == rec_pc \in {"decide", "returned"} \/ rec_error = "no fields"

\* the issued date stored in the result, NoneRec when the key is absent
StoredIssuedDate ==
    IF "issued_date" \in DOMAIN rec_result.values
    THEN rec_result.values["issued_date"] ELSE NoneRec

\* C11: when no issuance keyword anchors a date, _extract_issued_date
\* returns the date if the valid date tokens of the text denote exactly one
\* distinct calendar date, and None if they denote two or more distinct
\* dates (or none).
C11_UnanchoredDateAcceptedIffUnique ==
    (ResultBuilt /\ ~KeywordAnchorsDate(TextOf(rec_lines))) =>
        LET dates == ValidTokenDates(TextOf(rec_lines))
        IN /\ Cardinality(dates) = 1 => StoredIssuedDate \in dates
           /\ Cardinality(dates) # 1 => StoredIssuedDate = NoneRec

\* lines with two distinct valid dates and no keyword anchoring either: no
\* issued date is stored
C11_Witness ==
    /\ ResultBuilt
    /\ ~KeywordAnchorsDate(TextOf(rec_lines))
    /\ Cardinality(ValidTokenDates(TextOf(rec_lines))) >= 2
    /\ StoredIssuedDate = NoneRec

\* C12: a date candidate failing calendar validation is never returned and
\* never ends the extraction: the issued date is a valid calendar date or
\* None, and when the valid date tokens of the text denote exactly one date
\* a date is found whatever invalid candidates stand before it.
C12_InvalidCandidateDiscarded ==
    ResultBuilt =>
        /\ StoredIssuedDate = NoneRec \/ IsValidDate(StoredIssuedDate)
        /\ StoredIssuedDate = ExtractIssuedDate(TextOf(rec_lines))
        /\ Cardinality(ValidTokenDates(TextOf(rec_lines))) = 1
              => StoredIssuedDate # NoneRec

\* lines where the date next to the keyword is 31.02.2020: it is discarded
\* and the valid date of another line is found
C12_Witness ==
    /\ ResultBuilt
    /\ HasInvalidToken(TextOf(rec_lines))
    /\ ParseDateString(KeywordThenDateSearch(TextOf(rec_lines), IssuedDateKeywords[1]))
          = NoneRec
    /\ KeywordThenDateSearch(TextOf(rec_lines), IssuedDateKeywords[1]) # None
    /\ StoredIssuedDate # NoneRec

-----------------------------------------------------------------------------
(* Claims about the full name and its warning, checked under SpecRecognize *)

\* the full name stored in the result, None when the key is absent
StoredFullName ==
    IF "full_name" \in DOMAIN rec_result.values
    THEN rec_result.values["full_name"] ELSE None

\* the number of space-separated parts of a name
NameParts(name) == Len(SplitWords(name))

\* C13: the warnings list is empty when the full name was recognized with
\* three parts or not recognized at all, and holds exactly one warning,
\* naming the missing patronymic, when it was recognized with exactly two
\* parts; a recognized full name has two or three parts.
C13_WarningIffTwoPartName ==
    ResultBuilt =>
        /\ StoredFullName = None => rec_result.warnings = <<>>
        /\ StoredFullName # None =>
              /\ NameParts(StoredFullName) \in {2, 3}
              /\ NameParts(StoredFullName) = 3 => rec_result.warnings = <<>>
              /\ NameParts(StoredFullName) = 2 =>
                    rec_result.warnings = <<NameWarning(<<"othestvo">>)>>

\* a two-part name was recognized and one warning was recorded
C13_Witness ==
    /\ ResultBuilt
    /\ StoredFullName # None
    /\ NameParts(StoredFullName) = 2
    /\ Len(rec_result.warnings) = 1

-----------------------------------------------------------------------------
(* Claims about parse_passport_text and the manual format, checked under SpecParse *)

\* C14: a PassportData with single-line, trimmed, non-empty text fields and
\* digit-only series and number, written in the manual format (one
\* "label: value" line per field, the date as DD.MM.YYYY) and parsed by
\* parse_passport_text, gives back a record equal to the original.
C14_ManualFormatRoundTrips ==
    \A passport \in FormattablePassports :
        (parse_pc \in {"raised", "returned"} /\ raw_text = ManualFormat(passport)) =>
            /\ parse_pc = "returned"
            /\ parse_return = passport

\* parsing has returned for the formatted text of a record whose values
\* hold a dash and a colon
C14_Witness ==
    /\ parse_pc = "returned"
    /\ \E passport \in FormattablePassports :
          /\ raw_text = ManualFormat(passport)
          /\ Contains(passport.issued_by, <<"-">>)
          /\ Contains(passport.full_name, <<":">>)
          /\ parse_return = passport

-----------------------------------------------------------------------------
(* Claims about the division code, checked under SpecRecognize *)

\* a line holding a division code
DivisionLine == Chars("770-001")

\* the document that differs from raw by the division-code line at its end
DivisionCounterpart(raw) ==
    IF raw # <<>> /\ raw[Len(raw)] = DivisionLine
    THEN SubSeq(raw, 1, Len(raw) - 1)
    ELSE Append(raw, DivisionLine)

\* the results of the five mandatory extractors
MandatoryValues(lines) ==
    [full_name |-> ExtractFullName(lines, TextOf(lines)).name,
     series_number |-> ExtractSeriesNumber(TextOf(lines)),
     issued_by |-> ExtractIssuedBy(lines),
     issued_date |-> ExtractIssuedDate(TextOf(lines))]

\* recognize_passport_image returns a record, given the result built from
\* the lines
ProducesRecord(lines, result) ==
    /\ ~RecognizeOutcome(lines, result).raised
    /\ RecognizeOutcome(lines, result).passport # NoneRec

\* C15: two documents on which the five mandatory extractors give the same
\* results and of which exactly one holds a division code are both turned
\* into a record or both not, and their missing_fields are identical.
C15_DivisionCodeNeverAffectsCompleteness ==
    rec_pc = "decide" =>
        LET other == NormalizeLines(DivisionCounterpart(raw_lines))
            other_result == BuildPassportFromLines(other)
        IN (/\ MandatoryValues(other) = MandatoryValues(rec_lines)
            /\ Truthy(ExtractDivisionCode(TextOf(other)))
                  # Truthy(ExtractDivisionCode(TextOf(rec_lines))))
           => /\ ProducesRecord(other, other_result)
                    <=> ProducesRecord(rec_lines, BuildPassportFromLines(rec_lines))
              /\ other_result.missing_fields = rec_result.missing_fields

\* all five mandatory fields were found in lines without a division code,
\* and adding the division-code line leaves the five values as they are
C15_Witness ==
    /\ rec_pc = "decide"
    /\ rec_result.missing_fields = <<>>
    /\ ~Truthy(ExtractDivisionCode(TextOf(rec_lines)))
    /\ Truthy(ExtractDivisionCode(TextOf(NormalizeLines(DivisionCounterpart(raw_lines)))))
    /\ MandatoryValues(NormalizeLines(DivisionCounterpart(raw_lines)))
          = MandatoryValues(rec_lines)

-----------------------------------------------------------------------------
(* Claims about the series and the number, checked under SpecRecognize *)

\* the text holds a standalone token of exactly n digits: a word between
\* whitespace made of n digits and nothing else
HasDigitToken(text, n) ==
    \E k \in 1..Len(SplitWords(text)) :
        /\ Len(SplitWords(text)[k]) = n
        /\ DigitsOnly(SplitWords(text)[k]) = SplitWords(text)[k]

\* C16: series and number are recognized independently of each other: when
\* the combined pattern has not matched, a standalone 4-digit token of the
\* text is taken as the series and a standalone 6-digit token as the number,
\* so a text with a 4-digit token always yields a series and a text with a
\* 6-digit token always yields a number.
C16_StandaloneTokensRecognized ==
    ResultBuilt =>
        /\ HasDigitToken(TextOf(rec_lines), 4) => "series" \in DOMAIN rec_result.values
        /\ HasDigitToken(TextOf(rec_lines), 6) => "number" \in DOMAIN rec_result.values

-----------------------------------------------------------------------------
(* Claims about the dialogue, checked under SpecDialogue *)

\* a PassportData with its five mandatory fields present and non-empty
PassportComplete(passport) ==
    /\ passport # NoneRec
    /\ passport.full_name # <<>>
    /\ passport.series # <<>>
    /\ passport.number # <<>>
    /\ passport.issued_by # <<>>
    /\ IsValidDate(passport.issued_date)

\* C6: whenever confirm_contract has called generate_documents, the
\* PassportData of the context handed to it is complete: full_name, series,
\* number, issued_by and issued_date are all present and non-empty, whether
\* the record came from a photo or from manual entry.
C6_GeneratorGetsCompletePassport ==
    generated # NoneRec => PassportComplete(generated.passport)

\* recognition returned with at least one but not all mandatory fields
PartiallyRecognized(outcome) ==
    /\ outcome # NoneRec
    /\ ~outcome.raised
    /\ outcome.passport = NoneRec
    /\ \E i \in 1..Len(MandatoryLabels) :
          InSeq(MandatoryLabels[i], outcome.result.recognized_fields)

\* C17: when recognition finds at least one but not all mandatory fields,
\* handle_passport_photo treats it as a non-error outcome: no exception
\* leaves the handler and the recognition-error path is not taken.
C17_PartialRecognitionIsNotAnError ==
    PartiallyRecognized(photo_outcome) =>
        /\ dlg_error = ""
        /\ reply # "recognition failed"

\* recognize_passport_image raised PassportRecognitionError in the handler
\* of the last update
RecognitionRaised ==
    /\ photo_outcome # NoneRec
    /\ photo_outcome.raised

\* C18: when the recognition of a photo sent in waiting_for_passport raises
\* PassportRecognitionError (OCR failure, no text, no fields),
\* handle_passport_photo returns normally with no passport in the dialogue
\* data, the dialogue in waiting_for_manual_data and the retry / manual
\* entry prompt as its last answer.
C18_RecognitionErrorFallsBackToManual ==
    RecognitionRaised =>
        /\ handler = "handle_passport_photo"
        /\ dlg_error = ""
        /\ "passport" \notin DOMAIN fsm_data
        /\ fsm_state = "waiting_for_manual_data"
        /\ reply = "recognition failed"

C18_Witness ==
    /\ RecognitionRaised
    /\ photo_outcome.error = "no fields"
    /\ fsm_state = "waiting_for_manual_data"
    /\ reply = "recognition failed"

\* parse_passport_text raised ValueError in the handler of the last update
FormatErrorRaised ==
    /\ manual_outcome # NoneRec
    /\ manual_outcome.raised
    /\ manual_outcome.error \in ValueErrors

\* C19: a step of handle_manual_passport in which parse_passport_text raises
\* a format error starts in waiting_for_manual_data, changes neither the
\* dialogue state nor the dialogue data (it stores no passport), and answers
\* with the text of the error.
C19_FormatErrorChangesNothing ==
    [][FormatErrorRaised' =>
          /\ handler' = "handle_manual_passport"
          /\ fsm_state = "waiting_for_manual_data"
          /\ fsm_state' = fsm_state
          /\ fsm_data' = fsm_data
          /\ reply' = "data not read"
          /\ dlg_error' = ""]_vars

C19_Witness ==
    /\ FormatErrorRaised
    /\ handler = "handle_manual_passport"
    /\ fsm_state = "waiting_for_manual_data"
    /\ "passport_photo" \in DOMAIN fsm_data
    /\ reply = "data not read"

\* C20: however many recognize_passport_image calls the executor threads
\* take, and however their first calls interleave, easyocr.Reader is
\* instantiated at most once.
C20_ReaderConstructedAtMostOnce == readers_made <= 1

(* Claims about the persisted stores *)

\* C21: over any sequence of load_and_increment calls on one counter file
\* the first call returns 1 and every call returns the value returned before
\* plus one, so more than every value returned before; the value returned
\* last is the one in the file.
C21_CounterMonotonic ==
    /\ \A i \in 1..Len(returned) : returned[i] = i
    /\ \A i, j \in 1..Len(returned) : i < j => returned[i] < returned[j]
    /\ returned # <<>> => counter_json = CounterFile(returned[Len(returned)])

C21_Witness ==
    /\ Len(returned) = MaxIncrements
    /\ counter_json = CounterFile(MaxIncrements)

\* C22: after any sequence of update_user_contract calls the 'contracts' list
\* of each user is the sequence of the payloads appended for that user, in
\* call order, 'last_contract' is its last element, a user nothing was
\* appended for has no entry, and get_last_contract returns the last element
\* (None without an entry).
C22_RegistryAppendOnly ==
    /\ \A u \in UserIds :
          IF appended[u] = <<>>
          THEN u \notin DOMAIN LoadUsers(registry_json)
          ELSE /\ u \in DOMAIN LoadUsers(registry_json)
               /\ LoadUsers(registry_json)[u].contracts = appended[u]
               /\ LoadUsers(registry_json)[u].last_contract =
                     appended[u][Len(appended[u])]
    /\ last_got # NoneRec =>
          last_got.result =
             IF appended[last_got.user_id] = <<>> THEN <<>>
             ELSE <<appended[last_got.user_id][Len(appended[last_got.user_id])]>>

C22_Witness ==
    /\ \A u \in UserIds : appended[u] # <<>>
    /\ \E u \in UserIds :
          /\ Len(appended[u]) >= 2
          /\ appended[u][1] # appended[u][2]
          /\ last_got # NoneRec
          /\ last_got.user_id = u
          /\ last_got.result = <<appended[u][2]>>

(* Claims about the dialogue from the photo on *)

\* recognize_passport_image returned a complete passport record in the
\* handler of the last update
CompletelyRecognized(outcome) ==
    /\ outcome # NoneRec
    /\ ~outcome.raised
    /\ outcome.passport # NoneRec

\* C23: after a photo sent in waiting_for_passport whose recognition yields a
\* complete passport record, the dialogue data hold that record with the
\* path of the photo and the dialogue is in passport_confirmation.
C23_RecognizedPassportIsStored ==
    CompletelyRecognized(photo_outcome) =>
        /\ dlg_error = ""
        /\ fsm_state = "passport_confirmation"
        /\ "passport" \in DOMAIN fsm_data
        /\ fsm_data["passport"] =
              [photo_outcome.passport EXCEPT !.photo_path = PhotoDestination]

(* Claims about the extraction of the full name *)

\* ("фамил",), ("имя",), ("отч",): the keywords of the three name labels
SurnameKeywords == {Chars("famil")}

FirstNameKeywords == {Chars("imq")}

PatronymicKeywords == {Chars("oth")}

\* the first name token of a value found after a label, <<>> without one
FirstToken(value) == NormalizedTokens(value, 1)

\* C24: whenever the keyword-anchored parts of _extract_full_name make a
\* two-part name (returned with the 'missing patronymic' marker), the two
\* parts are the surname found after its label followed by the first name
\* found after its label.
C24_TwoPartNameIsSurnameAndFirstName ==
    (ResultBuilt /\ Len(KeywordNameParts(rec_lines)) = 2) =>
        /\ FirstToken(ExtractAfterKeyword(rec_lines, SurnameKeywords)) # <<>>
        /\ FirstToken(ExtractAfterKeyword(rec_lines, FirstNameKeywords)) # <<>>
        /\ StoredFullName =
              Join(FirstToken(ExtractAfterKeyword(rec_lines, SurnameKeywords))
                   \o FirstToken(ExtractAfterKeyword(rec_lines, FirstNameKeywords)),
                   <<" ">>)

\* the tokens of the longest run of consecutive qualifying lines from line
\* i on, a run of n tokens being open
RECURSIVE LongestRunFrom(_, _, _, _)
LongestRunFrom(lines, i, longest, n) ==
    IF i > Len(lines) THEN longest
    ELSE IF LineNameTokens(lines[i]) = <<>>
    THEN LongestRunFrom(lines, i + 1, longest, 0)
    ELSE LongestRunFrom(lines, i + 1,
             IF n + Len(LineNameTokens(lines[i])) > longest
             THEN n + Len(LineNameTokens(lines[i])) ELSE longest,
             n + Len(LineNameTokens(lines[i])))

\* _extract_full_name gets as far as its call of _collect_name_sequence
SequenceConsulted(lines) ==
    /\ Len(KeywordNameParts(lines)) < 2
    /\ PatternNameWords(lines) = <<>>

\* C25: _collect_name_sequence returns as many tokens as the longest run of
\* name tokens of consecutive qualifying lines has, at most 3: lines of one
\* and of two tokens extend the same run, and only a line that is empty,
\* has digits or has no name token ends it.
C25_LongestRunOfNameTokens ==
    (ResultBuilt /\ SequenceConsulted(rec_lines)) =>
        /\ Len(CollectNameSequence(rec_lines)) <= 3
        /\ Len(CollectNameSequence(rec_lines)) =
              Min(3, LongestRunFrom(rec_lines, 1, 0, 0))

\* value is the stripped text of one of the two lines after a line with one
\* of the keywords
FollowsLabelLine(lines, keywords, value) ==
    \E idx \in 1..Len(lines) :
        /\ ContainsAny(Lower(lines[idx]), keywords)
        /\ \E j \in 1..2 :
              /\ idx + j <= Len(lines)
              /\ Strip(lines[idx + j]) = value

\* what C26 says of the value taken after the label with these keywords
IsNamePartValue(lines, keywords) ==
    ExtractAfterKeyword(lines, keywords) # None =>
        /\ FollowsLabelLine(lines, keywords, ExtractAfterKeyword(lines, keywords))
        /\ ~ContainsDigits(ExtractAfterKeyword(lines, keywords))
        /\ ~ContainsAny(Lower(ExtractAfterKeyword(lines, keywords)),
                        SurnameKeywords \cup FirstNameKeywords \cup PatronymicKeywords)

\* C26: the value taken for the surname, the first name or the patronymic
\* is the text of one of the two lines after the label line, has no digits
\* and matches none of the keywords of the three name labels.
C26_NamePartIsNeverALabelLine ==
    ResultBuilt =>
        /\ IsNamePartValue(rec_lines, SurnameKeywords)
        /\ IsNamePartValue(rec_lines, FirstNameKeywords)
        /\ IsNamePartValue(rec_lines, PatronymicKeywords)

(* Claims about the data of the contract *)

\* the dialogue data hold the five keys of a contract, a positive amount and
\* the schedule built from the stored date and amount
ConsistentContract(d) ==
    /\ ContractKeys \subseteq DOMAIN d
    /\ d["total_amount"] > 0
    /\ ~BuildPaymentSchedule(d["first_payment_date"], d["total_amount"]).raised
    /\ d["payments"] =
          BuildPaymentSchedule(d["first_payment_date"], d["total_amount"]).payments
    /\ SumAmounts(d["payments"]) = d["total_amount"]

\* C27: whenever confirm_contract can run (the dialogue is in confirmation)
\* the dialogue data hold passport, total_amount, first_payment_date, payments
\* and contract_number, total_amount is positive and payments is the schedule
\* built from the stored first_payment_date and total_amount, summing to
\* total_amount; the context handed to generate_documents is made of these
\* data.
C27_ConfirmedContractIsConsistent ==
    /\ fsm_state = "confirmation" => ConsistentContract(fsm_data)
    /\ handler = "confirm_contract" =>
          /\ dlg_error = ""
          /\ generated # NoneRec
          /\ generated.total_amount > 0
          /\ SumAmounts(generated.payments) = generated.total_amount
          /\ generated.payments =
                BuildPaymentSchedule(generated.first_payment_date,
                                     generated.total_amount).payments

\* a contract was generated after an earlier one was prepared and abandoned
C27_Witness ==
    /\ handler = "confirm_contract"
    /\ generated # NoneRec
    /\ registry # <<>>
    /\ Len(registry) = 1
    /\ counter_file = 2

(* Claims about the dialogues of several users *)

\* the places of the registry: a user id and an index of its contracts
RecordedPlaces ==
    {p \in UserIds \X (1..MaxIncrements) : p[2] <= Len(appended[p[1]])}

\* the numeric prefix of a contract number
NumberPrefix(contract_number) ==
    SubSeq(contract_number, 1, Find(contract_number, <<"-">>) - 1)

LineLabel(line) ==
    IF SeparatorIndex(line) = 0 THEN <<>>
    ELSE Lower(Strip(SubSeq(line, 1, SeparatorIndex(line) - 1)))

\* the lines of the text carry pairwise distinct labels
DistinctLabels(lines) ==
    \A i, j \in 1..Len(lines) :
        i # j => /\ SeparatorIndex(lines[i]) # 0
                 /\ LineLabel(lines[i]) # LineLabel(lines[j])

\* the text made of the lines in the order f
Permuted(lines, f) == Join([i \in 1..Len(lines) |-> lines[f[i]]], <<"\n">>)

\* the label is one of the aliases of a field other than field
IsAliasOfAnotherField(label, field) ==
    \E k \in 1..Len(FieldNames) :
        /\ FieldNames[k] # field
        /\ InSeq(label, FIELD_ALIASES[FieldNames[k]])

\* C29: for a text whose lines carry pairwise distinct labels, every
\* permutation of the lines gives the outcome of parse_passport_text on the
\* text itself (the same record or the same failure), and no field of a
\* returned record takes its value from a line whose label is an alias of
\* another field.
C29_OutcomeIndependentOfLineOrder ==
    (parse_pc \in {"returned", "raised"}
        /\ DistinctLabels(TextLines(Strip(raw_text)))) =>
        /\ \A k \in 1..Len(FieldNames) :
              (parse_pc = "returned" /\ FieldNames[k] \in DOMAIN mapped) =>
                 \A n \in 1..Len(data) :
                    (n = MappedIndex(data, FIELD_ALIASES[FieldNames[k]])) =>
                       ~IsAliasOfAnotherField(data[n].key, FieldNames[k])
        /\ \A f \in Permutations(1..Len(TextLines(Strip(raw_text)))) :
              ParsePassportText(Permuted(TextLines(Strip(raw_text)), f))
                 = ParsePassportText(raw_text)

(* Claims about the commands *)

\* C30: in every dialogue state a /get_contract message is taken by
\* get_last_contract_command, and never by the handler registered for the
\* messages of that state.
C30_GetContractServedInEveryState == ENABLED get_last_contract_command

=============================================================================
